---- MODULE Spec2Model ----
(***************************************************************************)
(* Model of the query engine of Epic-Analyst (src/text_to_sql_engine.py,  *)
(* class TextToSQLEngine) and of the service endpoints that drive it      *)
(* (src/main.py).                                                          *)
(*                                                                         *)
(* Texts are sequences of one-character strings, so that upper(), strip(), *)
(* startswith(), the substring test and the three regular expressions of   *)
(* clean_sql_query are computed character by character as Python does.     *)
(***************************************************************************)
EXTENDS Integers, Sequences, FiniteSets, TLC

\* ------------------------------------------------------------------------
\* Bounds of the model
\* ------------------------------------------------------------------------
\* number of fragments an input text of the validator is assembled from
MaxValFrags == 3
\* number of fragments an input text of the normaliser is assembled from
MaxCleanFrags == 3
\* number of connection objects that can be told apart (live references
\* are at most two: self.conn and the parent of self.cursor)
MaxConnObjs == 3
\* number of callers of the engine
NumThreads == 2

\* the most columns and rows of a result handed to determine_chart_type
MaxChartCols == 2
MaxChartRows == 6
MaxTabFrags == 2
MaxRecCols == 2

\* ------------------------------------------------------------------------
\* Python string primitives
\* ------------------------------------------------------------------------
LowerLetters ==
  <<"a","b","c","d","e","f","g","h","i","j","k","l","m",
    "n","o","p","q","r","s","t","u","v","w","x","y","z">>

UpperLetters ==
  <<"A","B","C","D","E","F","G","H","I","J","K","L","M",
    "N","O","P","Q","R","S","T","U","V","W","X","Y","Z">>

\* str.upper() on one character
UpperChar(c) ==
  IF \E i \in 1..26 : LowerLetters[i] = c
  THEN UpperLetters[CHOOSE i \in 1..26 : LowerLetters[i] = c]
  ELSE c

\* str.upper()
upper(s) == [i \in 1..Len(s) |-> UpperChar(s[i])]

\* the characters matched by \s and removed by str.strip()
Whitespace == {" ", "\n", "\t"}

\* str.startswith(p)
startswith(s, p) == Len(s) >= Len(p) /\ SubSeq(s, 1, Len(p)) = p

\* str.endswith(p)
endswith(s, p) ==
  Len(s) >= Len(p) /\ SubSeq(s, Len(s) - Len(p) + 1, Len(s)) = p

\* the Python test  p in s  on strings
Contains(s, p) ==
  \E i \in 0..(Len(s) - Len(p)) : SubSeq(s, i + 1, i + Len(p)) = p

RECURSIVE lstrip(_)
lstrip(s) ==
  IF s # <<>> /\ Head(s) \in Whitespace THEN lstrip(Tail(s)) ELSE s

RECURSIVE rstrip(_)
rstrip(s) ==
  IF s # <<>> /\ s[Len(s)] \in Whitespace
  THEN rstrip(SubSeq(s, 1, Len(s) - 1))
  ELSE s

\* str.strip()
strip(s) == rstrip(lstrip(s))

\* ------------------------------------------------------------------------
\* validate_sql
\* ------------------------------------------------------------------------
SELECT == <<"S","E","L","E","C","T">>

dangerous_keywords ==
  << <<"D","R","O","P">>,
     <<"D","E","L","E","T","E">>,
     <<"U","P","D","A","T","E">>,
     <<"I","N","S","E","R","T">>,
     <<"A","L","T","E","R">>,
     <<"C","R","E","A","T","E">>,
     <<"T","R","U","N","C","A","T","E">>,
     <<"G","R","A","N","T">>,
     <<"R","E","V","O","K","E">> >>

\* the loop  for keyword in dangerous_keywords: if keyword in sql_upper
\* from index k on; 0 when no keyword occurs
RECURSIVE FirstDangerous(_, _)
FirstDangerous(text, k) ==
  IF k > Len(dangerous_keywords) THEN 0
  ELSE IF Contains(text, dangerous_keywords[k]) THEN k
  ELSE FirstDangerous(text, k + 1)

\* a mutant of validate_sql: the text is not trimmed before the prefix test
validate_sql_untrimmed(sql) ==
  LET sql_upper == upper(sql)
      k == FirstDangerous(sql_upper, 1)
  IN  IF k # 0
      THEN [valid |-> FALSE,
            error |-> <<"Query contains forbidden operation: ">>
                        \o dangerous_keywords[k]]
      ELSE IF ~ startswith(sql_upper, SELECT)
      THEN [valid |-> FALSE, error |-> <<"Only SELECT queries are allowed">>]
      ELSE [valid |-> TRUE, error |-> <<>>]

\* a mutant of validate_sql: the keyword scan runs over sql, not sql.upper()
validate_sql_caseSensitive(sql) ==
  LET sql_upper == upper(sql)
      k == FirstDangerous(sql, 1)
  IN  IF k # 0
      THEN [valid |-> FALSE,
            error |-> <<"Query contains forbidden operation: ">>
                        \o dangerous_keywords[k]]
      ELSE IF ~ startswith(strip(sql_upper), SELECT)
      THEN [valid |-> FALSE, error |-> <<"Only SELECT queries are allowed">>]
      ELSE [valid |-> TRUE, error |-> <<>>]

\* a mutant of validate_sql: SELECT may occur anywhere in the text
validate_sql_selectAnywhere(sql) ==
  LET sql_upper == upper(sql)
      k == FirstDangerous(sql_upper, 1)
  IN  IF k # 0
      THEN [valid |-> FALSE,
            error |-> <<"Query contains forbidden operation: ">>
                        \o dangerous_keywords[k]]
      ELSE IF ~ Contains(sql_upper, SELECT)
      THEN [valid |-> FALSE, error |-> <<"Only SELECT queries are allowed">>]
      ELSE [valid |-> TRUE, error |-> <<>>]

\* validate_sql(sql); the error None is the empty text, and a formatted
\* message is its literal part followed by the characters of the keyword
validate_sql(sql) ==
  LET sql_upper == upper(sql)
      k == FirstDangerous(sql_upper, 1)
  IN  IF k # 0
      THEN [valid |-> FALSE,
            error |-> <<"Query contains forbidden operation: ">>
                        \o dangerous_keywords[k]]
      ELSE IF ~ startswith(strip(sql_upper), SELECT)
      THEN [valid |-> FALSE, error |-> <<"Only SELECT queries are allowed">>]
      ELSE [valid |-> TRUE, error |-> <<>>]

\* ------------------------------------------------------------------------
\* clean_sql_query
\* ------------------------------------------------------------------------
\* the backquote character is written "BQ"
Backquote == "BQ"

Fence == <<Backquote, Backquote, Backquote>>
FenceSql == Fence \o <<"s","q","l">>

\* ^ under re.MULTILINE: position i is the start of the text or follows \n
AtLineStart(s, i) == i = 1 \/ s[i - 1] = "\n"

\* $ under re.MULTILINE: position i is the end of the text or holds \n
AtLineEnd(s, i) == i = Len(s) + 1 \/ s[i] = "\n"

\* the literal p occurs in s at position i
MatchAt(s, p, i) ==
  i + Len(p) - 1 <= Len(s) /\ SubSeq(s, i, i + Len(p) - 1) = p

\* \s* is greedy: the first position at or after i that is not whitespace
RECURSIVE SkipWhitespace(_, _)
SkipWhitespace(s, i) ==
  IF i <= Len(s) /\ s[i] \in Whitespace THEN SkipWhitespace(s, i + 1) ELSE i

\* re.sub('^' + p + '\s*', '', s, flags=re.MULTILINE), scanning from i:
\* leftmost non-overlapping matches, tested against the original text
RECURSIVE SubLeading(_, _, _)
SubLeading(s, p, i) ==
  IF i > Len(s) THEN <<>>
  ELSE IF AtLineStart(s, i) /\ MatchAt(s, p, i)
  THEN SubLeading(s, p, SkipWhitespace(s, i + Len(p)))
  ELSE <<s[i]>> \o SubLeading(s, p, i + 1)

\* re.sub(Fence + '$', '', s, flags=re.MULTILINE), scanning from i
RECURSIVE SubTrailing(_, _)
SubTrailing(s, i) ==
  IF i > Len(s) THEN <<>>
  ELSE IF MatchAt(s, Fence, i) /\ AtLineEnd(s, i + Len(Fence))
  THEN SubTrailing(s, i + Len(Fence))
  ELSE <<s[i]>> \o SubTrailing(s, i + 1)

\* clean_sql_query(sql)
clean_sql_query(sql) ==
  LET s1 == SubLeading(sql, FenceSql, 1)
      s2 == SubLeading(s1, Fence, 1)
      s3 == SubTrailing(s2, 1)
      s4 == strip(s3)
  IN  IF ~ endswith(s4, <<";">>) THEN s4 \o <<";">> ELSE s4

\* ------------------------------------------------------------------------
\* Input texts of the two pure functions
\* ------------------------------------------------------------------------
\* the concatenation of the fragments frags[f[1]], frags[f[2]], ...
RECURSIVE Join(_, _)
Join(frags, f) ==
  IF f = <<>> THEN <<>> ELSE frags[Head(f)] \o Join(frags, Tail(f))

\* all texts made of at most n fragments
TextsOf(frags, n) ==
  { Join(frags, f) : f \in UNION { [1..m -> 1..Len(frags)] : m \in 0..n } }

ValFrags ==
  << <<"S","E","L","E","C","T">>,
     <<"s","e","l","e","c","t">>,
     <<" ">>,
     <<"D","e","L","e","T","e">>,
     <<"d","r","o","p">>,
     <<"c","r","e","a","t","e","d","_","a","t">>,
     <<"W","I","T","H">>,
     <<"x">> >>

ValInputs == TextsOf(ValFrags, MaxValFrags)

CleanFrags ==
  << Fence, FenceSql, <<" ">>, <<"\n">>, <<"S">>, <<";">> >>

CleanInputs == TextsOf(CleanFrags, MaxCleanFrags)

\* ------------------------------------------------------------------------
\* SQL synthesis: create_prompt, generate_sql
\* ------------------------------------------------------------------------
\* Python's None where a text is expected
NoText == <<"None">>

\* what open() and json.load find for rules.json and business_context.json
RulesFileStates == {"ok", "missing", "malformed", "notObject"}
ContextFileStates == {"ok", "missing", "malformed"}

\* str(e) of the exceptions of create_prompt and of the model call
FileErrorMessage(name, state) ==
  IF state = "missing"
  THEN <<"[Errno 2] No such file or directory: '", name, "'">>
  ELSE IF state = "malformed"
  THEN <<"Expecting value: line 1 column 1 (char 0)">>
  ELSE <<"'list' object has no attribute 'get'">>

ModelErrorMessage == <<"503 The model is overloaded">>

\* what model.generate_content and response.text give: an exception or a text
ModelRaises == [raises |-> TRUE, text |-> <<>>]
ModelSays(text) == [raises |-> FALSE, text |-> text]

\* create_prompt: rules.json and business_context.json are opened and parsed
\* anew, in this order; an exception leaves create_prompt
create_prompt(rules, context) ==
  IF rules # "ok"
  THEN [raised |-> TRUE, msg |-> FileErrorMessage("rules.json", rules)]
  ELSE IF context # "ok"
  THEN [raised |-> TRUE,
        msg |-> FileErrorMessage("business_context.json", context)]
  ELSE [raised |-> FALSE, msg |-> <<>>]

\* a call that ended with a return statement: no exception left it
Returned(v) == [raised |-> FALSE, ret |-> v]

GeneratedFailure(message) ==
  [success |-> FALSE, sql |-> NoText, error |-> message]

\* the model's text is returned as it came
generate_sql_raw(rules, context, model) ==
  LET prompt == create_prompt(rules, context)
  IN  IF prompt.raised THEN Returned(GeneratedFailure(prompt.msg))
      ELSE IF model.raises THEN Returned(GeneratedFailure(ModelErrorMessage))
      ELSE Returned([success |-> TRUE, sql |-> model.text, error |-> NoText])

\* generate_sql: prompt, model call, strip and clean_sql_query inside one
\* try; except Exception returns the failure shape
generate_sql(rules, context, model) ==
  LET prompt == create_prompt(rules, context)
  IN  IF prompt.raised THEN Returned(GeneratedFailure(prompt.msg))
      ELSE IF model.raises THEN Returned(GeneratedFailure(ModelErrorMessage))
      ELSE Returned([success |-> TRUE,
                     sql |-> clean_sql_query(strip(model.text)),
                     error |-> NoText])

\* the raw texts the model may answer with
GenTexts == CleanInputs

GenInputs ==
  [rules : RulesFileStates, context : ContextFileStates,
   model : {ModelRaises} \cup {ModelSays(x) : x \in GenTexts}]

\* ------------------------------------------------------------------------
\* Chart decision: determine_chart_type
\* ------------------------------------------------------------------------
\* str.lower() on one character
LowerChar(c) ==
  IF \E i \in 1..26 : UpperLetters[i] = c
  THEN LowerLetters[CHOOSE i \in 1..26 : UpperLetters[i] = c]
  ELSE c

\* str.lower()
lower(s) == [i \in 1..Len(s) |-> LowerChar(s[i])]

visualization_keywords ==
  { <<"c","h","a","r","t">>, <<"g","r","a","p","h">>, <<"p","l","o","t">>,
    <<"v","i","s","u","a","l","i","z","e">>, <<"s","h","o","w">>,
    <<"d","i","s","p","l","a","y">>, <<"c","o","m","p","a","r","e">>,
    <<"t","r","e","n","d">>, <<"o","v","e","r"," ","t","i","m","e">>,
    <<"d","i","s","t","r","i","b","u","t","i","o","n">>,
    <<"p","e","r","c","e","n","t","a","g","e">>, <<"r","a","t","i","o">>,
    <<"b","r","e","a","k","d","o","w","n">>,
    <<"a","n","a","l","y","s","i","s">> }

\* any(keyword in query_lower for keyword in visualization_keywords)
HasVisualizationKeyword(user_query) ==
  \E keyword \in visualization_keywords : Contains(lower(user_query), keyword)

Digits == {"0","1","2","3","4","5","6","7","8","9"}

\* float(text) does not raise: surrounding whitespace, a sign, then digits
\* with at most one point, or inf, infinity, nan in any case (exponents and
\* digit-group underscores do not occur in the values drawn here)
IsFloatText(text) ==
  LET t == strip(text)
      u == IF t # <<>> /\ t[1] \in {"+", "-"} THEN Tail(t) ELSE t
  IN  \/ /\ \A i \in 1..Len(u) : u[i] \in Digits \cup {"."}
         /\ Cardinality({i \in 1..Len(u) : u[i] = "."}) <= 1
         /\ \E i \in 1..Len(u) : u[i] \in Digits
      \/ lower(u) \in { <<"n","a","n">>, <<"i","n","f">>,
                        <<"i","n","f","i","n","i","t","y">> }

\* the marks that make a value date-like
date_marks ==
  { <<"-">>, <<"/">>, <<"2","0","2">>, <<"2","0","1">>,
    <<"j","a","n">>, <<"f","e","b">>, <<"m","a","r">>, <<"a","p","r">>,
    <<"m","a","y">>, <<"j","u","n">>, <<"j","u","l">>, <<"a","u","g">>,
    <<"s","e","p">>, <<"o","c","t">>, <<"n","o","v">>, <<"d","e","c">> }

\* col in row, row.get(col, '') on a dict kept as (key, value) pairs
DictHas(d, k) == \E i \in 1..Len(d) : d[i][1] = k
DictGet(d, k) ==
  IF DictHas(d, k) THEN d[CHOOSE i \in 1..Len(d) : d[i][1] = k][2] ELSE <<>>

\* the kind the loop over columns gives a column, from the first of its
\* sample values; "skipped" when no sampled row holds the column
ColumnKind(data, col) ==
  LET sampled == {i \in 1..Len(data) : i <= 10 /\ DictHas(data[i], col)}
  IN  IF sampled = {} THEN "skipped"
      ELSE LET first == DictGet(data[CHOOSE i \in sampled :
                                       \A j \in sampled : i <= j], col)
           IN  IF IsFloatText(first) THEN "numeric"
               ELSE IF \E mark \in date_marks : Contains(first, mark)
               THEN "date"
               ELSE "categorical"

\* a numeric column and three rows suffice
auto_visualize_fromThree(has_numeric_data, has_categories, has_time_series, rows) ==
  \/ has_numeric_data /\ has_categories /\ rows >= 2
  \/ has_numeric_data /\ has_time_series /\ rows >= 3
  \/ has_numeric_data /\ rows >= 3

\* a date column needs no numeric column beside it
auto_visualize_dateAlone(has_numeric_data, has_categories, has_time_series, rows) ==
  \/ has_numeric_data /\ has_categories /\ rows >= 2
  \/ has_time_series /\ rows >= 3
  \/ has_numeric_data /\ rows >= 5

\* the heuristic used when the question holds no visualization keyword
auto_visualize(has_numeric_data, has_categories, has_time_series, rows) ==
  \/ has_numeric_data /\ has_categories /\ rows >= 2
  \/ has_numeric_data /\ has_time_series /\ rows >= 3
  \/ has_numeric_data /\ rows >= 5

\* the chart types of a ChartConfig
ChartTypes == {"bar", "line", "pie", "area", "scatter"}

\* a Python value as far as its users look at it: its type, its truth value
\* and, for a dict, what it holds under 'should_visualize' and 'chart_type'
\* ("absent" for a missing key, "None" for None/null)
PyDict(should_visualize, chart_type) ==
  [kind |-> "dict", truthy |-> TRUE,
   should_visualize |-> should_visualize, chart_type |-> chart_type]

PyOther(kind, truthy) ==
  [kind |-> kind, truthy |-> truthy,
   should_visualize |-> "absent", chart_type |-> "absent"]

PyNone == PyOther("NoneType", FALSE)

\* the JSON documents the model may answer with and what json.loads makes
\* of each
JsonDocs ==
  << [text |-> "{\"should_visualize\": true, \"chart_type\": \"bar\"}",
      value |-> PyDict("True", "bar")],
     [text |-> "{\"should_visualize\": true, \"chart_type\": \"heatmap\"}",
      value |-> PyDict("True", "heatmap")],
     [text |-> "{\"should_visualize\": true}",
      value |-> PyDict("True", "absent")],
     [text |-> "{\"should_visualize\": false, \"chart_type\": null}",
      value |-> PyDict("False", "None")],
     [text |-> "{\"chart_type\": \"line\"}",
      value |-> PyDict("absent", "line")],
     [text |-> "{\"should_visualize\": \"yes\", \"chart_type\": \"pie\"}",
      value |-> PyDict("'yes'", "pie")],
     [text |-> "[\"bar\"]", value |-> PyOther("list", TRUE)],
     [text |-> "\"bar\"", value |-> PyOther("str", TRUE)],
     [text |-> "null", value |-> PyNone] >>

\* json.loads(text): a value, or JSONDecodeError for anything that is not
\* one document (whitespace around it allowed)
json_loads(text) ==
  LET t == strip(text)
  IN  IF Len(t) = 1 /\ \E d \in 1..Len(JsonDocs) : JsonDocs[d].text = t[1]
      THEN [ok |-> TRUE,
            value |-> JsonDocs[CHOOSE d \in 1..Len(JsonDocs) :
                                 JsonDocs[d].text = t[1]].value]
      ELSE [ok |-> FALSE, value |-> PyNone]

FenceJson == Fence \o <<"j","s","o","n">>

\* the texts the model may answer the chart prompt with: each document bare
\* and inside a json fence, and a sentence that is no JSON
ChartTexts ==
  UNION { { <<JsonDocs[d].text>>,
            FenceJson \o <<"\n", JsonDocs[d].text, "\n">> \o Fence }
          : d \in 1..Len(JsonDocs) }
  \cup { <<"a"," ","b","a","r"," ","c","h","a","r","t">> }

ChartAnswers == {ModelRaises} \cup {ModelSays(x) : x \in ChartTexts}

\* what determine_chart_type returned and whether it called the model
ChartOutcome(value, invoked) == [ret |-> value, invoked |-> invoked]

\* determine_chart_type(user_query, data, columns), with the model's answer
\* to the chart prompt; the whole body is inside try, and except Exception
\* returns {'should_visualize': False}
determine_chart_type(user_query, data, columns, answer) ==
  IF data = <<>>
  THEN ChartOutcome(PyDict("False", "absent"), FALSE)
  ELSE
    LET kinds == {ColumnKind(data, columns[j]) : j \in 1..Len(columns)}
        should_visualize ==
          \/ HasVisualizationKeyword(user_query)
          \/ auto_visualize("numeric" \in kinds, "categorical" \in kinds,
                            "date" \in kinds, Len(data))
    IN  IF ~ should_visualize
        THEN ChartOutcome(PyDict("False", "None"), FALSE)
        ELSE IF answer.raises
        THEN ChartOutcome(PyDict("False", "absent"), TRUE)
        ELSE
          LET r0 == strip(answer.text)
              r1 == SubLeading(r0, FenceJson, 1)
              r2 == SubLeading(r1, Fence, 1)
              r3 == SubTrailing(r2, 1)
              parsed == json_loads(strip(r3))
          IN  IF parsed.ok
              THEN ChartOutcome(parsed.value, TRUE)
              ELSE ChartOutcome(PyDict("False", "absent"), TRUE)

\* ------------------------------------------------------------------------
\* Relevance selection: identify_relevant_tables
\* ------------------------------------------------------------------------
\* table_keywords, in the insertion order of the dict literal
table_keywords ==
  << [table |-> "lead_master",
      keywords |-> <<<<"l","e","a","d">>,
                     <<"c","u","s","t","o","m","e","r">>,
                     <<"m","o","b","i","l","e">>,
                     <<"p","h","o","n","e">>,
                     <<"s","o","u","r","c","e">>,
                     <<"c","r","e">>,
                     <<"f","o","l","l","o","w">>>>],
     [table |-> "ps_followup_master",
      keywords |-> <<<<"f","o","l","l","o","w","u","p">>,
                     <<"f","o","l","l","o","w","-","u","p">>,
                     <<"f","o","l","l","o","w"," ","u","p">>,
                     <<"p","s">>,
                     <<"p","r","e","-","s","a","l","e","s">>,
                     <<"p","r","e","s","a","l","e","s">>>>],
     [table |-> "qualified_leads",
      keywords |-> <<<<"q","u","a","l","i","f","i","e","d">>,
                     <<"q","u","a","l","i","f","y">>>>],
     [table |-> "booking_and_retail_master",
      keywords |-> <<<<"b","o","o","k","i","n","g">>,
                     <<"r","e","t","a","i","l">>,
                     <<"b","o","o","k","e","d">>,
                     <<"r","e","t","a","i","l","e","d">>>>],
     [table |-> "trade_in_master",
      keywords |-> <<<<"t","r","a","d","e">>,
                     <<"t","r","a","d","e","-","i","n">>,
                     <<"e","x","c","h","a","n","g","e">>>>],
     [table |-> "users",
      keywords |-> <<<<"u","s","e","r">>,
                     <<"e","m","p","l","o","y","e","e">>,
                     <<"s","t","a","f","f">>,
                     <<"c","r","e">>,
                     <<"s","a","l","e","s">>>>],
     [table |-> "duplicate_leads",
      keywords |-> <<<<"d","u","p","l","i","c","a","t","e">>,
                     <<"d","u","p","l","i","c","a","t","e","s">>>>],
     [table |-> "source_subsource_mapping",
      keywords |-> <<<<"s","o","u","r","c","e">>,
                     <<"s","u","b","s","o","u","r","c","e">>,
                     <<"s","u","b","-","s","o","u","r","c","e">>>>] >>

\* the list used when no table was identified
main_tables ==
  <<"lead_master", "ps_followup_master", "qualified_leads", "users">>

\* any(keyword in user_query_lower for keyword in keywords)
AnyKeywordIn(text, keywords) ==
  \E k \in 1..Len(keywords) : Contains(text, keywords[k])

\* the loop over table_keywords.items(): the tables of entries i..8 that
\* have a keyword in the text, appended in order
RECURSIVE AppendMatching(_, _)
AppendMatching(text, i) ==
  IF i > Len(table_keywords) THEN <<>>
  ELSE (IF AnyKeywordIn(text, table_keywords[i].keywords)
        THEN <<table_keywords[i].table>> ELSE <<>>)
       \o AppendMatching(text, i + 1)

\* the question is matched as it was typed
identify_relevant_tables_caseSensitive(user_query) ==
  LET relevant_tables == AppendMatching(user_query, 1)
  IN  IF relevant_tables = <<>> THEN main_tables ELSE relevant_tables

\* no list is substituted when no table was identified
identify_relevant_tables_noFallback(user_query) ==
  AppendMatching(lower(user_query), 1)

\* identify_relevant_tables(user_query)
identify_relevant_tables(user_query) ==
  LET relevant_tables == AppendMatching(lower(user_query), 1)
  IN  IF relevant_tables = <<>> THEN main_tables ELSE relevant_tables

\* the fragments questions are made of
TabFrags ==
  << <<"L","e","a","d">>,
     <<"b","o","o","k","i","n","g">>,
     <<"c","r","e">>,
     <<"s","o","u","r","c","e">>,
     <<"f","o","l","l","o","w">>,
     <<" ">>,
     <<"u","p">>,
     <<"s">>,
     <<"p">>,
     <<"x">> >>

TabInputs == TextsOf(TabFrags, MaxTabFrags)

\* ------------------------------------------------------------------------
\* Narrative: generate_natural_language_response
\* ------------------------------------------------------------------------
\* what the function returned and whether it called the model
NlOutcome(text, invoked) == [ret |-> text, invoked |-> invoked]

\* the summary of the except clause, made from row_count alone
FallbackSummary(row_count) ==
  IF row_count > 0
  THEN <<"I found ", ToString(row_count),
         " result(s) matching your query. Here are the details:">>
  ELSE <<"I didn't find any results matching your query.">>

\* chart_config and chart_config.get('should_visualize') raises
\* AttributeError for a true value that has no get: a list, a str
GetRaises(chart_config) == chart_config.truthy /\ chart_config.kind # "dict"

\* the model is asked even when no row was found
generate_natural_language_response_askOnEmpty(user_query, execution_result, chart_config, answer) ==
  IF ~ execution_result.success
  THEN NlOutcome(
         <<"I encountered an error while processing your query: ">>
         \o execution_result.error
         \o <<". Please try rephrasing your question.">>, FALSE)
  ELSE IF GetRaises(chart_config)
  THEN NlOutcome(FallbackSummary(execution_result.row_count), FALSE)
  ELSE IF answer.raises
  THEN NlOutcome(FallbackSummary(execution_result.row_count), TRUE)
  ELSE NlOutcome(strip(answer.text), TRUE)

\* generate_natural_language_response(user_query, sql_query,
\* execution_result, chart_config), with the model's answer to the
\* explanation prompt; sql_query is not used.  The whole body is inside try,
\* and except Exception returns the summary made from row_count
generate_natural_language_response(user_query, execution_result, chart_config, answer) ==
  IF ~ execution_result.success
  THEN NlOutcome(
         <<"I encountered an error while processing your query: ">>
         \o execution_result.error
         \o <<". Please try rephrasing your question.">>, FALSE)
  ELSE IF execution_result.row_count = 0
  THEN NlOutcome(
         <<"I searched for '">> \o user_query
         \o <<"' but didn't find any matching results in the database. Please try adjusting your query or check if the data exists.">>,
         FALSE)
  ELSE IF GetRaises(chart_config)
  THEN NlOutcome(FallbackSummary(execution_result.row_count), FALSE)
  ELSE IF answer.raises
  THEN NlOutcome(FallbackSummary(execution_result.row_count), TRUE)
  ELSE NlOutcome(strip(answer.text), TRUE)

\* ------------------------------------------------------------------------
\* State
\* ------------------------------------------------------------------------
VARIABLES
  conn,        \* self.conn: None or a connection object
  cursor,      \* self.cursor: None or a cursor object
  connClosed,  \* connection.closed of every connection object
  linkUp,      \* whether the server session behind a connection answers
  txnAborted,  \* whether the session's open transaction is aborted
  dbUp,        \* whether psycopg2.connect succeeds
  pc,          \* position of each caller inside execute_query
  sql,         \* the argument of each caller's execute_query
  result,      \* the value each execute_query returned
  events,      \* what the caller's current call did at the driver, in order
  firstError,  \* the exception the first submission raised
  submitted,   \* every text execute_query handed to cursor.execute
  lastOp,      \* the engine operation completed last and what it returned
  valIn,       \* validate_sql applied to a drawn text
  valOut,
  valDone,
  cleanIn,     \* clean_sql_query applied once and twice to a drawn text
  cleanOnce,
  cleanTwice,
  cleanPc,
  genIn,       \* generate_sql applied to drawn files and a drawn model answer
  genOut,
  genDone,
  chartIn,     \* determine_chart_type applied to a drawn question and result
  chartOut,
  chartDone,
  nlIn,        \* generate_natural_language_response applied to drawn inputs
  nlOut,
  nlDone,
  req,         \* the /generate-sql request being handled, if any
  tabIn,       \* identify_relevant_tables applied to a drawn question
  tabOut,
  tabDone,
  racing,      \* whether another call was in progress during each caller's call
  ui,          \* st.session_state of the chat page and the run in progress
  recIn,       \* the fetch of execute_query applied to a drawn result set
  recOut,
  recDone,
  svc,         \* the service process: whether startup ran, the global engine
  prev         \* what the execute_query call before the current one returned

engVars == <<conn, cursor, connClosed, linkUp, txnAborted>>
callVars == <<pc, sql, result, events, firstError>>
fnVars == <<valIn, valOut, valDone, cleanIn, cleanOnce, cleanTwice, cleanPc>>
genVars == <<genIn, genOut, genDone>>
chartVars == <<chartIn, chartOut, chartDone>>
nlVars == <<nlIn, nlOut, nlDone>>
tabVars == <<tabIn, tabOut, tabDone>>
recVars == <<recIn, recOut, recDone>>
auxVars == <<tabVars, racing, ui, svc, recVars, prev>>
llmVars == <<genVars, chartVars, nlVars, req, auxVars>>
vars == <<engVars, dbUp, callVars, submitted, lastOp, fnVars, llmVars>>

None == 0
ConnIds == 1..MaxConnObjs
Threads == 1..NumThreads

\* self.cursor = None
NoCursor == [parent |-> None, closed |-> FALSE, last |-> <<>>]

\* a cursor just returned by connection.cursor()
NewCursor(c) == [parent |-> c, closed |-> FALSE, last |-> <<>>]

\* the engine fields and the driver objects they refer to, as one value
Eng ==
  [conn |-> conn, cursor |-> cursor, connClosed |-> connClosed,
   linkUp |-> linkUp, txnAborted |-> txnAborted]

\* flags of connection objects nothing refers to any more are dropped
Collect(E) ==
  LET live == {E.conn, E.cursor.parent}
  IN  [E EXCEPT
         !.connClosed = [c \in ConnIds |-> c \in live /\ E.connClosed[c]],
         !.linkUp = [c \in ConnIds |-> c \in live /\ E.linkUp[c]],
         !.txnAborted = [c \in ConnIds |-> c \in live /\ E.txnAborted[c]]]

\* (values used more than once are bound by a quantifier over a singleton,
\* which evaluates them once)
SetEng(E) ==
  \E N \in {Collect(E)} :
      /\ conn' = N.conn
      /\ cursor' = N.cursor
      /\ connClosed' = N.connClosed
      /\ linkUp' = N.linkUp
      /\ txnAborted' = N.txnAborted

\* ------------------------------------------------------------------------
\* The database driver (psycopg2) as the engine uses it
\* ------------------------------------------------------------------------
\* cursor.closed: the cursor was closed or its connection is closed
CursorIsClosed(E) == E.cursor.closed \/ E.connClosed[E.cursor.parent]

\* cursor.close()
cursor_close(E) == [E EXCEPT !.cursor.closed = TRUE]

\* connection.close(): the session ends
conn_close(E) ==
  [E EXCEPT !.connClosed[E.conn] = TRUE, !.linkUp[E.conn] = FALSE]

\* the object psycopg2.connect returns is none of the objects still held
FreshConn(E) ==
  CHOOSE c \in ConnIds : c # E.conn /\ c # E.cursor.parent

\* exception classes the engine tells apart
ConnectionClass == {"OperationalError", "InterfaceError", "InternalError"}
Psycopg2Error == ConnectionClass \cup {"ProgrammingError"}

\* the liveness probe of _ensure_connection
Probe == SELECT \o <<" ", "1">>

\* statements the callers pass to execute_query
SqlGood == SELECT \o <<" ", "2">>
SqlUnknownColumn == <<"s","e","l","e","c","t"," ","x">>
SqlDelete == <<"d","e","l","e","t","e"," ","x">>
SqlSelectDrop == SELECT \o <<" ","D","r","o","p">>
SqlWith == <<"W","I","T","H"," ","x">>
SqlTwoStatements ==
  SELECT \o <<" ", "1", ";">> \o SELECT \o <<" ", "b", ",", "a", ";">>

SqlTexts == {SqlGood, SqlUnknownColumn, SqlDelete, SqlSelectDrop, SqlWith,
             SqlTwoStatements}

\* the text without its terminating ";", which the database does not need
Unterminated(text) ==
  IF endswith(rstrip(text), <<";">>)
  THEN rstrip(SubSeq(rstrip(text), 1, Len(rstrip(text)) - 1))
  ELSE rstrip(text)

\* the result set of a statement the database accepts: the projected column
\* names in query order and the rows in the order the database returns them;
\* of several statements the cursor keeps the result of the last
ResultSet(text) ==
  IF Unterminated(text) = Unterminated(SqlTwoStatements)
  THEN [columns |-> <<"b", "a">>,
        rows |-> << <<<<"y">>, <<"2">>>>, <<<<"x">>, <<"2">>>>,
                    <<<<"y">>, <<"1">>>> >>]
  ELSE IF Unterminated(text) = SqlGood
  THEN [columns |-> <<"?column?">>, rows |-> << <<<<"2">>>> >>]
  ELSE [columns |-> <<"?column?">>, rows |-> << <<<<"1">>>> >>]

\* cursor.fetchall(): the rows not fetched yet; the probe's only row was
\* taken by the fetchone() of _ensure_connection
fetchall(text) == IF text = Probe THEN <<>> ELSE ResultSet(text).rows

\* statements the database rejects with a statement-level error
RejectedSql == {SqlUnknownColumn}

\* the message of the database for a rejected statement
StatementMessage == "column does not exist"

\* the cursor keeps the first result set it was given
cursor_execute_keepsFirst(E, text) ==
  IF E.cursor = NoCursor
  THEN [E |-> E, raised |-> "AttributeError",
        msg |-> "'NoneType' object has no attribute 'execute'"]
  ELSE LET c == E.cursor.parent
       IN  IF CursorIsClosed(E)
           THEN [E |-> E, raised |-> "InterfaceError",
                 msg |-> "cursor already closed"]
           ELSE IF ~ E.linkUp[c]
           THEN [E |-> [E EXCEPT !.connClosed[c] = TRUE],
                 raised |-> "OperationalError",
                 msg |-> "server closed the connection unexpectedly"]
           ELSE IF E.txnAborted[c]
           THEN [E |-> E, raised |-> "InternalError",
                 msg |-> "current transaction is aborted"]
           ELSE IF Unterminated(text) \in RejectedSql
           THEN [E |-> [E EXCEPT !.txnAborted[c] = TRUE],
                 raised |-> "ProgrammingError",
                 msg |-> StatementMessage]
           ELSE [E |-> [E EXCEPT !.cursor.last =
                          IF @ = <<>> THEN text ELSE @],
                 raised |-> "none", msg |-> ""]

\* cursor.execute(text) on self.cursor: the exception raised ("none" when
\* the statement ran), its message, and the driver state afterwards.  A
\* statement the database accepts leaves a result set on the cursor (column
\* names and rows); autocommit is off and the engine never commits or rolls
\* back, so a rejected statement leaves the session's transaction aborted
cursor_execute(E, text) ==
  IF E.cursor = NoCursor
  THEN [E |-> E, raised |-> "AttributeError",
        msg |-> "'NoneType' object has no attribute 'execute'"]
  ELSE LET c == E.cursor.parent
       IN  IF CursorIsClosed(E)
           THEN [E |-> E, raised |-> "InterfaceError",
                 msg |-> "cursor already closed"]
           ELSE IF ~ E.linkUp[c]
           THEN [E |-> [E EXCEPT !.connClosed[c] = TRUE],
                 raised |-> "OperationalError",
                 msg |-> "server closed the connection unexpectedly"]
           ELSE IF E.txnAborted[c]
           THEN [E |-> E, raised |-> "InternalError",
                 msg |-> "current transaction is aborted"]
           ELSE IF Unterminated(text) \in RejectedSql
           THEN [E |-> [E EXCEPT !.txnAborted[c] = TRUE],
                 raised |-> "ProgrammingError",
                 msg |-> StatementMessage]
           ELSE [E |-> [E EXCEPT !.cursor.last = text],
                 raised |-> "none", msg |-> ""]

\* ------------------------------------------------------------------------
\* Connection manager: connect_db, _ensure_connection, close
\* ------------------------------------------------------------------------
\* if self.cursor: try: self.cursor.close() except: pass
close_cursor_if_any(E) == IF E.cursor # NoCursor THEN cursor_close(E) ELSE E

\* if self.conn: try: self.conn.close() except: pass
close_conn_if_any(E) == IF E.conn # None THEN conn_close(E) ELSE E

\* the teardown of the two except blocks: close both, then forget both
teardown(E) ==
  [close_conn_if_any(close_cursor_if_any(E)) EXCEPT
     !.cursor = NoCursor, !.conn = None]

\* connect_db(); up tells whether psycopg2.connect succeeds.  The value is
\* the state afterwards, the value returned and the driver calls made
connect_db(E, up) ==
  LET E1 == [close_cursor_if_any(E) EXCEPT !.cursor = NoCursor]
      E2 == [close_conn_if_any(E1) EXCEPT !.conn = None]
      c == FreshConn(E)
  IN  IF up
      THEN [E |-> [E2 EXCEPT !.conn = c,
                             !.connClosed[c] = FALSE,
                             !.linkUp[c] = TRUE,
                             !.txnAborted[c] = FALSE,
                             !.cursor = NewCursor(c)],
            ret |-> TRUE, log |-> <<"connect:ok">>]
      ELSE [E |-> [E2 EXCEPT !.cursor = NoCursor, !.conn = None],
            ret |-> FALSE, log |-> <<"connect:failed">>]

\* a mutant of _ensure_connection: the probe asks whether the server
\* answers, and an aborted transaction does not make it fail
_ensure_connection_pingOnly(E, up) ==
  IF E.conn = None \/ E.connClosed[E.conn]
  THEN connect_db(E, up)
  ELSE LET E1 == IF E.cursor = NoCursor \/ CursorIsClosed(E)
                 THEN [E EXCEPT !.cursor = NewCursor(E.conn)]
                 ELSE E
       IN  IF E1.linkUp[E1.conn]
           THEN [E |-> E1, ret |-> TRUE, log |-> <<"probe:ok">>]
           ELSE LET r == connect_db(teardown(E1), up)
                IN  [r EXCEPT !.log = <<"probe:failed", "teardown">> \o @]

\* a mutant of _ensure_connection: a failed connect is tried a second time
_ensure_connection_twice(E, up) ==
  LET again(r) ==
        IF r.ret THEN r
        ELSE LET r2 == connect_db(r.E, up)
             IN  [r2 EXCEPT !.log = r.log \o @]
  IN  IF E.conn = None \/ E.connClosed[E.conn]
      THEN again(connect_db(E, up))
      ELSE LET E1 == IF E.cursor = NoCursor \/ CursorIsClosed(E)
                     THEN [E EXCEPT !.cursor = NewCursor(E.conn)]
                     ELSE E
               probe == cursor_execute(E1, Probe)
           IN  IF probe.raised = "none"
               THEN [E |-> probe.E, ret |-> TRUE, log |-> <<"probe:ok">>]
               ELSE LET r == again(connect_db(teardown(probe.E), up))
                    IN  [r EXCEPT !.log = <<"probe:failed", "teardown">> \o @]

\* a mutant of _ensure_connection: a failed probe is reported without
\* tearing the session down and without reconnecting
_ensure_connection_keepBroken(E, up) ==
  IF E.conn = None \/ E.connClosed[E.conn]
  THEN connect_db(E, up)
  ELSE LET E1 == IF E.cursor = NoCursor \/ CursorIsClosed(E)
                 THEN [E EXCEPT !.cursor = NewCursor(E.conn)]
                 ELSE E
           probe == cursor_execute(E1, Probe)
       IN  IF probe.raised = "none"
           THEN [E |-> probe.E, ret |-> TRUE, log |-> <<"probe:ok">>]
           ELSE [E |-> probe.E, ret |-> FALSE, log |-> <<"probe:failed">>]

\* a mutant of _ensure_connection: a connection object that is held is
\* taken to be usable, without looking at conn.closed and without a probe
_ensure_connection_trusting(E, up) ==
  IF E.conn = None
  THEN connect_db(E, up)
  ELSE [E |-> E, ret |-> TRUE, log |-> <<>>]

\* _ensure_connection()
_ensure_connection(E, up) ==
  IF E.conn = None \/ E.connClosed[E.conn]
  THEN connect_db(E, up)
  ELSE LET E1 == IF E.cursor = NoCursor \/ CursorIsClosed(E)
                 THEN [E EXCEPT !.cursor = NewCursor(E.conn)]
                 ELSE E
           probe == cursor_execute(E1, Probe)
       IN  IF probe.raised = "none"
           THEN [E |-> probe.E, ret |-> TRUE, log |-> <<"probe:ok">>]
           ELSE LET r == connect_db(teardown(probe.E), up)
                IN  [r EXCEPT !.log = <<"probe:failed", "teardown">> \o @]

\* a mutant of close: the connection is left open
close_cursorOnly(E) ==
  IF E.cursor # NoCursor THEN cursor_close(E) ELSE E

\* close()
close(E) ==
  LET E1 == IF E.cursor # NoCursor THEN cursor_close(E) ELSE E
  IN  IF E1.conn # None THEN conn_close(E1) ELSE E1

\* what _ensure_connection will find
StateClass(E) ==
  IF E.conn = None THEN "none"
  ELSE IF E.connClosed[E.conn] THEN "closed"
  ELSE IF ~ E.linkUp[E.conn] \/ E.txnAborted[E.conn] THEN "broken"
  ELSE "live"

\* ------------------------------------------------------------------------
\* execute_query, one step per blocking call
\* ------------------------------------------------------------------------
\* d[k] = v on a dict, kept as the sequence of its (key, value) pairs in
\* insertion order: an existing key keeps its place and takes the new value
DictSet(d, k, v) ==
  IF \E i \in 1..Len(d) : d[i][1] = k
  THEN [i \in 1..Len(d) |-> IF d[i][1] = k THEN <<k, v>> ELSE d[i]]
  ELSE Append(d, <<k, v>>)

\* zip stops at the shorter of its arguments
RECURSIVE DictZipFrom(_, _, _, _)
DictZipFrom(d, keys, values, i) ==
  IF i > Len(keys) \/ i > Len(values) THEN d
  ELSE DictZipFrom(DictSet(d, keys[i], values[i]), keys, values, i + 1)

\* dict(zip(columns, row))
dict_zip(keys, values) == DictZipFrom(<<>>, keys, values, 1)

\* a result dict of execute_query; data_none stands for 'data': None, and
\* the failure dicts carry no 'columns' key (callers read it with a default
\* of [])
NoResult ==
  [success |-> FALSE, data |-> <<>>, data_none |-> TRUE, columns |-> <<>>,
   error |-> <<>>, row_count |-> 0]

\* {'success': False, 'data': None, 'error': ..., 'row_count': 0}
Failure(message) ==
  [success |-> FALSE, data |-> <<>>, data_none |-> TRUE, columns |-> <<>>,
   error |-> message, row_count |-> 0]

\* the fetch of a cursor whose description names the given columns and
\* whose fetchall() gives the given rows: data.append(dict(zip(columns, row)))
\* for every row, then the success dict
Materialize(columns, rows) ==
  LET data == [i \in 1..Len(rows) |-> dict_zip(columns, rows[i])]
  IN  [success |-> TRUE, data |-> data, data_none |-> FALSE,
       columns |-> columns, error |-> <<>>, row_count |-> Len(data)]

\* the rows come back last first
Success_reversed(statement) ==
  LET columns == ResultSet(statement).columns
      rows == fetchall(statement)
      data == [i \in 1..Len(rows) |->
                 dict_zip(columns, rows[Len(rows) + 1 - i])]
  IN  [success |-> TRUE, data |-> data, data_none |-> FALSE,
       columns |-> columns, error |-> <<>>, row_count |-> Len(data)]

\* {'success': True, 'data': data, 'columns': columns, 'error': None,
\* 'row_count': len(data)}: columns from cursor.description, one dict per row
\* of cursor.fetchall(), for the statement the cursor ran last
Success(statement) ==
  LET columns == ResultSet(statement).columns
      rows == fetchall(statement)
      data == [i \in 1..Len(rows) |-> dict_zip(columns, rows[i])]
  IN  [success |-> TRUE, data |-> data, data_none |-> FALSE,
       columns |-> columns, error |-> <<>>, row_count |-> Len(data)]

\* the record of a completed operation: its name, the value it returned,
\* its driver calls and the connection state it started from
Op(name, r, E) ==
  [op |-> name, ret |-> r.ret, log |-> r.log, from |-> StateClass(E)]

OtherOp(name, E) ==
  [op |-> name, ret |-> FALSE, log |-> <<>>, from |-> StateClass(E)]

\* the number of entries of a log that belong to a set
RECURSIVE Count(_, _)
Count(log, S) ==
  IF log = <<>> THEN 0
  ELSE (IF Head(log) \in S THEN 1 ELSE 0) + Count(Tail(log), S)

ConnectEvents == {"connect:ok", "connect:failed"}
SubmitEvents == {"submit:ok", "submit:connection", "submit:statement",
                 "submit:other"}

Idle == \A t \in Threads : pc[t] = "idle"

\* execute_query(s) is called; calls to the engine are serialized
Call(t, s) ==
  /\ Idle
  /\ pc' = [pc EXCEPT ![t] = "ensure"]
  /\ sql' = [sql EXCEPT ![t] = s]
  /\ UNCHANGED <<engVars, dbUp, result, events, firstError,
                 submitted, lastOp, fnVars, llmVars>>

\* if not self._ensure_connection(): return
Ensure(t) ==
  /\ pc[t] = "ensure"
  /\ \E r \in {_ensure_connection(Eng, dbUp)} :
         /\ SetEng(r.E)
         /\ events' = [events EXCEPT ![t] = @ \o r.log]
         /\ lastOp' = Op("ensure", r, Eng)
         /\ IF r.ret
            THEN /\ pc' = [pc EXCEPT ![t] = "validate"]
                 /\ UNCHANGED result
            ELSE /\ pc' = [pc EXCEPT ![t] = "done"]
                 /\ result' = [result EXCEPT ![t] =
                      Failure(<<"Failed to establish database connection">>)]
  /\ UNCHANGED <<dbUp, sql, firstError, submitted, fnVars, llmVars>>

\* a mutant of Validate: the verdict of validate_sql is not looked at
Validate_unchecked(t) ==
  /\ pc[t] = "validate"
  /\ pc' = [pc EXCEPT ![t] = "execute"]
  /\ UNCHANGED <<engVars, dbUp, sql, result, events, firstError,
                 submitted, lastOp, fnVars, llmVars>>

\* validation = self.validate_sql(sql); if not validation['valid']: return
Validate(t) ==
  /\ pc[t] = "validate"
  /\ \E validation \in {validate_sql(sql[t])} :
         IF validation.valid
         THEN /\ pc' = [pc EXCEPT ![t] = "execute"]
              /\ UNCHANGED result
         ELSE /\ pc' = [pc EXCEPT ![t] = "done"]
              /\ result' = [result EXCEPT ![t] = Failure(validation.error)]
  /\ UNCHANGED <<engVars, dbUp, sql, events, firstError,
                 submitted, lastOp, fnVars, llmVars>>

\* the record of one self.cursor.execute(sql) that raised the exception
\* class raised; with no cursor object there is nothing to submit to
SubmitEvent(raised) ==
  IF raised = "none" THEN "submit:ok"
  ELSE IF raised \in ConnectionClass THEN "submit:connection"
  ELSE IF raised \in Psycopg2Error THEN "submit:statement"
  ELSE "submit:other"

Submit(t, raised, then) ==
  IF cursor # NoCursor
  THEN /\ submitted' = submitted \cup {sql[t]}
       /\ events' = [events EXCEPT ![t] =
            Append(@, SubmitEvent(raised)) \o then]
  ELSE /\ events' = [events EXCEPT ![t] = @ \o then]
       /\ UNCHANGED submitted

\* a mutant of Execute: every psycopg2.Error is answered by a reconnect
Execute_retryAll(t) ==
  /\ pc[t] = "execute"
  /\ \E x \in {cursor_execute(Eng, sql[t])} :
         /\ Submit(t, x.raised,
                   IF x.raised \in Psycopg2Error
                   THEN <<"teardown">> ELSE <<>>)
         /\ IF x.raised = "none"
            THEN /\ SetEng(x.E)
                 /\ pc' = [pc EXCEPT ![t] = "fetch"]
                 /\ UNCHANGED <<result, firstError>>
            ELSE IF x.raised \in Psycopg2Error
            THEN /\ SetEng(teardown(x.E))
                 /\ firstError' = [firstError EXCEPT ![t] = x.msg]
                 /\ pc' = [pc EXCEPT ![t] = "reconnect"]
                 /\ UNCHANGED result
            ELSE IF x.raised \in Psycopg2Error
            THEN /\ SetEng(x.E)
                 /\ pc' = [pc EXCEPT ![t] = "done"]
                 /\ result' = [result EXCEPT ![t] =
                      Failure(<<"Database error: ", x.msg>>)]
                 /\ UNCHANGED firstError
            ELSE /\ SetEng(x.E)
                 /\ pc' = [pc EXCEPT ![t] = "done"]
                 /\ result' = [result EXCEPT ![t] = Failure(<<x.msg>>)]
                 /\ UNCHANGED firstError
  /\ lastOp' = OtherOp("execute", Eng)
  /\ UNCHANGED <<dbUp, sql, fnVars, llmVars>>

\* the first self.cursor.execute(sql) and its except clauses
Execute(t) ==
  /\ pc[t] = "execute"
  /\ \E x \in {cursor_execute(Eng, sql[t])} :
         /\ Submit(t, x.raised,
                   IF x.raised \in ConnectionClass
                   THEN <<"teardown">> ELSE <<>>)
         /\ IF x.raised = "none"
            THEN /\ SetEng(x.E)
                 /\ pc' = [pc EXCEPT ![t] = "fetch"]
                 /\ UNCHANGED <<result, firstError>>
            ELSE IF x.raised \in ConnectionClass
            THEN /\ SetEng(teardown(x.E))
                 /\ firstError' = [firstError EXCEPT ![t] = x.msg]
                 /\ pc' = [pc EXCEPT ![t] = "reconnect"]
                 /\ UNCHANGED result
            ELSE IF x.raised \in Psycopg2Error
            THEN /\ SetEng(x.E)
                 /\ pc' = [pc EXCEPT ![t] = "done"]
                 /\ result' = [result EXCEPT ![t] =
                      Failure(<<"Database error: ", x.msg>>)]
                 /\ UNCHANGED firstError
            ELSE /\ SetEng(x.E)
                 /\ pc' = [pc EXCEPT ![t] = "done"]
                 /\ result' = [result EXCEPT ![t] = Failure(<<x.msg>>)]
                 /\ UNCHANGED firstError
  /\ lastOp' = OtherOp("execute", Eng)
  /\ UNCHANGED <<dbUp, sql, fnVars, llmVars>>

\* a mutant of Reconnect: a failed reconnect is reported like a failure to
\* connect at the start of the call
Reconnect_asEstablish(t) ==
  /\ pc[t] = "reconnect"
  /\ \E r \in {_ensure_connection(Eng, dbUp)} :
         /\ SetEng(r.E)
         /\ events' = [events EXCEPT ![t] = @ \o r.log]
         /\ lastOp' = Op("ensure", r, Eng)
         /\ IF r.ret
            THEN /\ pc' = [pc EXCEPT ![t] = "retry"]
                 /\ UNCHANGED result
            ELSE /\ pc' = [pc EXCEPT ![t] = "done"]
                 /\ result' = [result EXCEPT ![t] =
                      Failure(<<"Failed to establish database connection">>)]
  /\ UNCHANGED <<dbUp, sql, firstError, submitted, fnVars, llmVars>>

\* the reconnect after a connection-class error: if not
\* self._ensure_connection(): return
Reconnect(t) ==
  /\ pc[t] = "reconnect"
  /\ \E r \in {_ensure_connection(Eng, dbUp)} :
         /\ SetEng(r.E)
         /\ events' = [events EXCEPT ![t] = @ \o r.log]
         /\ lastOp' = Op("ensure", r, Eng)
         /\ IF r.ret
            THEN /\ pc' = [pc EXCEPT ![t] = "retry"]
                 /\ UNCHANGED result
            ELSE /\ pc' = [pc EXCEPT ![t] = "done"]
                 /\ result' = [result EXCEPT ![t] =
                      Failure(<<"Failed to reconnect to database: ",
                                firstError[t]>>)]
  /\ UNCHANGED <<dbUp, sql, firstError, submitted, fnVars, llmVars>>

\* a mutant of Retry: a failure of the second submission is reported like
\* a failure of the first
Retry_asDatabaseError(t) ==
  /\ pc[t] = "retry"
  /\ \E x \in {cursor_execute(Eng, sql[t])} :
         /\ Submit(t, x.raised, <<>>)
         /\ SetEng(x.E)
         /\ IF x.raised = "none"
            THEN /\ pc' = [pc EXCEPT ![t] = "fetch"]
                 /\ UNCHANGED result
            ELSE /\ pc' = [pc EXCEPT ![t] = "done"]
                 /\ result' = [result EXCEPT ![t] =
                      Failure(<<"Database error: ",
                                x.msg>>)]
  /\ lastOp' = OtherOp("execute", Eng)
  /\ UNCHANGED <<dbUp, sql, firstError, fnVars, llmVars>>

\* the second self.cursor.execute(sql); except Exception as retry_error
Retry(t) ==
  /\ pc[t] = "retry"
  /\ \E x \in {cursor_execute(Eng, sql[t])} :
         /\ Submit(t, x.raised, <<>>)
         /\ SetEng(x.E)
         /\ IF x.raised = "none"
            THEN /\ pc' = [pc EXCEPT ![t] = "fetch"]
                 /\ UNCHANGED result
            ELSE /\ pc' = [pc EXCEPT ![t] = "done"]
                 /\ result' = [result EXCEPT ![t] =
                      Failure(<<"Query execution failed after reconnect: ",
                                x.msg>>)]
  /\ lastOp' = OtherOp("execute", Eng)
  /\ UNCHANGED <<dbUp, sql, firstError, fnVars, llmVars>>

\* columns = [...self.cursor.description]; rows = self.cursor.fetchall()
Fetch(t) ==
  /\ pc[t] = "fetch"
  /\ pc' = [pc EXCEPT ![t] = "done"]
  /\ result' = [result EXCEPT ![t] =
       IF cursor = NoCursor
       THEN Failure(<<"'NoneType' object has no attribute 'description'">>)
       ELSE IF cursor.last = <<>>
       THEN Failure(<<"'NoneType' object is not iterable">>)
       ELSE IF CursorIsClosed(Eng)
       THEN Failure(<<"Database error: ", "cursor already closed">>)
       ELSE Success(cursor.last)]
  /\ lastOp' = OtherOp("fetch", Eng)
  /\ UNCHANGED <<engVars, dbUp, sql, events, firstError,
                 submitted, fnVars, llmVars>>

\* the caller takes the result; the locals of the call are gone
Return(t) ==
  /\ pc[t] = "done"
  /\ pc' = [pc EXCEPT ![t] = "idle"]
  /\ sql' = [sql EXCEPT ![t] = <<>>]
  /\ result' = [result EXCEPT ![t] = NoResult]
  /\ events' = [events EXCEPT ![t] = <<>>]
  /\ firstError' = [firstError EXCEPT ![t] = ""]
  /\ UNCHANGED <<engVars, dbUp, submitted, lastOp, fnVars, llmVars>>

\* ------------------------------------------------------------------------
\* The other entry points and the environment
\* ------------------------------------------------------------------------
\* engine.connect_db() at service startup
DoConnectDb ==
  /\ Idle
  /\ \E r \in {connect_db(Eng, dbUp)} :
         SetEng(r.E) /\ lastOp' = Op("connect_db", r, Eng)
  /\ UNCHANGED <<dbUp, callVars, submitted, fnVars, llmVars>>

\* engine._ensure_connection() called by the /execute-sql endpoint
DoEnsureConnection ==
  /\ Idle
  /\ \E r \in {_ensure_connection(Eng, dbUp)} :
         SetEng(r.E) /\ lastOp' = Op("ensure", r, Eng)
  /\ UNCHANGED <<dbUp, callVars, submitted, fnVars, llmVars>>

\* engine.close()
DoClose ==
  /\ Idle
  /\ SetEng(close(Eng))
  /\ lastOp' = OtherOp("close", Eng)
  /\ UNCHANGED <<dbUp, callVars, submitted, fnVars, llmVars>>

\* the network or the server drops the session of the held connection;
\* the driver does not notice before its next round trip
Drop ==
  /\ conn # None
  /\ linkUp[conn]
  /\ linkUp' = [linkUp EXCEPT ![conn] = FALSE]
  /\ UNCHANGED <<conn, cursor, connClosed, txnAborted, dbUp, callVars,
                 submitted, lastOp, fnVars, llmVars>>

\* the database stops or starts accepting new connections
DbDown ==
  /\ dbUp
  /\ dbUp' = FALSE
  /\ UNCHANGED <<engVars, callVars, submitted, lastOp, fnVars, llmVars>>

DbUp ==
  /\ ~ dbUp
  /\ dbUp' = TRUE
  /\ UNCHANGED <<engVars, callVars, submitted, lastOp, fnVars, llmVars>>

\* ------------------------------------------------------------------------
\* Specifications
\* ------------------------------------------------------------------------
FnIdle ==
  /\ valIn = <<>>
  /\ valOut = [valid |-> FALSE, error |-> <<>>]
  /\ valDone = FALSE
  /\ cleanIn = <<>>
  /\ cleanOnce = <<>>
  /\ cleanTwice = <<>>
  /\ cleanPc = 0

\* TextToSQLEngine.__init__: no connection, no cursor, no call in progress
EngInit ==
  /\ conn = None
  /\ cursor = NoCursor
  /\ connClosed = [c \in ConnIds |-> FALSE]
  /\ linkUp = [c \in ConnIds |-> FALSE]
  /\ txnAborted = [c \in ConnIds |-> FALSE]
  /\ dbUp \in BOOLEAN
  /\ pc = [t \in Threads |-> "idle"]
  /\ sql = [t \in Threads |-> <<>>]
  /\ result = [t \in Threads |-> NoResult]
  /\ events = [t \in Threads |-> <<>>]
  /\ firstError = [t \in Threads |-> ""]
  /\ submitted = {}
  /\ lastOp = [op |-> "init", ret |-> FALSE, log |-> <<>>, from |-> "none"]

GenIdle ==
  /\ genIn = [rules |-> "ok", context |-> "ok", model |-> ModelRaises]
  /\ genOut = Returned(GeneratedFailure(<<>>))
  /\ genDone = FALSE

\* the questions asked, the values a column may hold in every row, and the
\* names of the columns
ChartQuestions ==
  { <<"t","o","p">>, <<"s","u","m">>, <<"S","h","o","w">>,
    <<"r","e","p","l","o","t","s">> }

ChartValues ==
  { <<"7">>, <<"-","1",".","5">>, <<"1","/","2">>, <<"j","a","n">>,
    <<"J","a","n">>, <<"n","o">> }

ChartColumnNames == <<"c1", "c2", "c3", "c4">>

\* the columns and the data of a result with the given value in each column
\* of each of n rows
ChartColumns(values) == SubSeq(ChartColumnNames, 1, Len(values))
ChartData(values, n) ==
  [i \in 1..n |-> dict_zip(ChartColumns(values), values)]

ChartInputs ==
  [question : ChartQuestions,
   values : UNION { [1..m -> ChartValues] : m \in 1..MaxChartCols },
   rows : 0..MaxChartRows,
   answer : ChartAnswers]

ChartIdle ==
  /\ chartIn = [question |-> <<>>, values |-> <<>>, rows |-> 0,
                answer |-> ModelRaises]
  /\ chartOut = ChartOutcome(PyNone, FALSE)
  /\ chartDone = FALSE

\* the success result of execute_query for the given value in each column
\* of each of n rows
ResultOfRows(values, n) ==
  [success |-> TRUE, data |-> ChartData(values, n), data_none |-> FALSE,
   columns |-> ChartColumns(values), error |-> <<>>, row_count |-> n]

NlResults ==
  { Failure(<<"Database error: ", StatementMessage>>) }
  \cup { ResultOfRows(values, n) :
           values \in UNION { [1..m -> ChartValues] : m \in 1..MaxChartCols },
           n \in 0..MaxChartRows }

\* the chart configurations the caller may pass on: None or what
\* determine_chart_type returned
NlChartConfigs ==
  {PyNone, PyDict("False", "absent"), PyDict("False", "None")}
  \cup {JsonDocs[d].value : d \in 1..Len(JsonDocs)}

NlAnswers ==
  {ModelRaises, ModelSays(<<" ","I","t"," ","r","o","s","e",".","\n">>)}

NlInputs ==
  [question : {<<"t","o","p">>, <<"S","h","o","w">>},
   result : NlResults, chart_config : NlChartConfigs, answer : NlAnswers]

NlIdle ==
  /\ nlIn = [question |-> <<>>, result |-> NoResult, chart_config |-> PyNone,
             answer |-> ModelRaises]
  /\ nlOut = NlOutcome(NoText, FALSE)
  /\ nlDone = FALSE

\* SQLResponse(success=False, error=...): the other fields keep their
\* defaults
ErrorResponse(error) ==
  [success |-> FALSE, data |-> <<>>, data_none |-> TRUE, columns |-> <<>>,
   row_count |-> 0, error |-> error, natural_language |-> NoText,
   chart_config |-> PyNone]

\* no request is being handled
NoRequest ==
  [stage |-> "idle", question |-> <<>>, sql |-> NoText,
   execution_result |-> NoResult, chart_config |-> PyNone,
   natural_language |-> NoText, response |-> ErrorResponse(<<>>),
   calls |-> <<>>]

ReqIdle == req = NoRequest

TabIdle == tabIn = <<>> /\ tabOut = <<>> /\ tabDone = FALSE

\* the session state of a new chat page (app.py 136-155); no run in progress
NoSession ==
  [auto_execute |-> FALSE, waiting_for_response |-> FALSE,
   current_sql |-> NoText, phase |-> "ready", question |-> <<>>,
   choice |-> "none"]

\* the service after a startup that constructed and connected the engine
Started == [started |-> TRUE, engine |-> TRUE, failed |-> FALSE]

\* no call has returned yet
NoCall == [failed |-> FALSE, error |-> <<>>]

RecIdle ==
  /\ recIn = [columns |-> <<>>, rows |-> <<>>]
  /\ recOut = NoResult
  /\ recDone = FALSE

AuxIdle ==
  /\ TabIdle
  /\ racing = [t \in Threads |-> FALSE]
  /\ ui = NoSession
  /\ svc = Started
  /\ prev = NoCall
  /\ RecIdle

LlmIdle == GenIdle /\ ChartIdle /\ NlIdle /\ ReqIdle /\ AuxIdle

Init == EngInit /\ FnIdle /\ LlmIdle

Step(t) ==
  \/ \E s \in SqlTexts : Call(t, s)
  \/ Ensure(t)
  \/ Validate(t)
  \/ Execute(t)
  \/ Reconnect(t)
  \/ Retry(t)
  \/ Fetch(t)
  \/ Return(t)

Next ==
  \/ \E t \in Threads : Step(t)
  \/ DoConnectDb
  \/ DoEnsureConnection
  \/ DoClose
  \/ Drop
  \/ DbDown
  \/ DbUp

\* the engine under serialized calls
Spec == Init /\ [][Next]_vars

\* a call of the caller is between its entry and its return statement
InProgress(t) == pc[t] \notin {"idle", "done"}

\* execute_query(s) is called while another call may be in progress: the
\* engine holds no lock
CallUnserialized(t, s) ==
  /\ pc[t] = "idle"
  /\ pc' = [pc EXCEPT ![t] = "ensure"]
  /\ sql' = [sql EXCEPT ![t] = s]
  /\ racing' = [u \in Threads |->
       IF u = t THEN \E v \in Threads \ {t} : InProgress(v)
       ELSE racing[u] \/ InProgress(u)]
  /\ UNCHANGED <<engVars, dbUp, result, events, firstError,
                 submitted, lastOp, fnVars, genVars, chartVars, nlVars, req,
                 tabVars, ui, svc, recVars, prev>>

\* the two callers that share the engine, and the statements they pass
Racers == {t \in Threads : t <= 2}
RaceTexts == {SqlGood, SqlTwoStatements}

StepUnserialized(t) ==
  \/ \E s \in RaceTexts : CallUnserialized(t, s)
  \/ Ensure(t)
  \/ Validate(t)
  \/ Execute(t)
  \/ Reconnect(t)
  \/ Retry(t)
  \/ Fetch(t)
  \/ Return(t)

NextUnserialized ==
  \/ \E t \in Racers : StepUnserialized(t)
  \/ Drop
  \/ DbDown
  \/ DbUp

\* the engine shared by callers that do not wait for each other
SpecUnserialized == Init /\ [][NextUnserialized]_vars

\* the caller takes the result and keeps whether the call failed, and how
ReturnNoting(t) ==
  /\ pc[t] = "done"
  /\ pc' = [pc EXCEPT ![t] = "idle"]
  /\ sql' = [sql EXCEPT ![t] = <<>>]
  /\ result' = [result EXCEPT ![t] = NoResult]
  /\ events' = [events EXCEPT ![t] = <<>>]
  /\ firstError' = [firstError EXCEPT ![t] = ""]
  /\ prev' = [failed |-> ~ result[t].success, error |-> result[t].error]
  /\ UNCHANGED <<engVars, dbUp, submitted, lastOp, fnVars, genVars,
                 chartVars, nlVars, req, tabVars, racing, ui, svc, recVars>>

StepNoting(t) ==
  \/ \E s \in SqlTexts : Call(t, s)
  \/ Ensure(t)
  \/ Validate(t)
  \/ Execute(t)
  \/ Reconnect(t)
  \/ Retry(t)
  \/ Fetch(t)
  \/ ReturnNoting(t)

NextNoting ==
  \/ \E t \in Threads : StepNoting(t)
  \/ Drop
  \/ DbDown
  \/ DbUp

\* serialized calls, each knowing the outcome of the call before it
SpecRecover == Init /\ [][NextNoting]_vars

\* the steps of a call that is in progress; execute_query is synchronous
\* code, so a call that has started keeps running
Run(t) ==
  \/ Ensure(t)
  \/ Validate(t)
  \/ Execute(t)
  \/ Reconnect(t)
  \/ Retry(t)
  \/ Fetch(t)

SpecFair == Spec /\ \A t \in Threads : WF_vars(Run(t))

\* validate_sql applied to one text of ValInputs
ValInit ==
  /\ EngInit
  /\ valIn \in ValInputs
  /\ valOut = [valid |-> FALSE, error |-> <<>>]
  /\ valDone = FALSE
  /\ cleanIn = <<>>
  /\ cleanOnce = <<>>
  /\ cleanTwice = <<>>
  /\ cleanPc = 0
  /\ LlmIdle

ApplyValidate ==
  /\ ~ valDone
  /\ valOut' = validate_sql(valIn)
  /\ valDone' = TRUE
  /\ UNCHANGED <<engVars, dbUp, callVars, submitted, lastOp, valIn,
                 cleanIn, cleanOnce, cleanTwice, cleanPc, llmVars>>

ValNext == ApplyValidate

SpecValidate == ValInit /\ [][ValNext]_vars

\* clean_sql_query applied to one text of CleanInputs, then to its own output
CleanInit ==
  /\ EngInit
  /\ valIn = <<>>
  /\ valOut = [valid |-> FALSE, error |-> <<>>]
  /\ valDone = FALSE
  /\ cleanIn \in CleanInputs
  /\ cleanOnce = <<>>
  /\ cleanTwice = <<>>
  /\ cleanPc = 0
  /\ LlmIdle

ApplyClean ==
  /\ cleanPc = 0
  /\ cleanOnce' = clean_sql_query(cleanIn)
  /\ cleanPc' = 1
  /\ UNCHANGED <<engVars, dbUp, callVars, submitted, lastOp, valIn, valOut,
                 valDone, cleanIn, cleanTwice, llmVars>>

ApplyCleanAgain ==
  /\ cleanPc = 1
  /\ cleanTwice' = clean_sql_query(cleanOnce)
  /\ cleanPc' = 2
  /\ UNCHANGED <<engVars, dbUp, callVars, submitted, lastOp, valIn, valOut,
                 valDone, cleanIn, cleanOnce, llmVars>>

CleanNext == ApplyClean \/ ApplyCleanAgain

SpecClean == CleanInit /\ [][CleanNext]_vars

\* generate_sql applied to one combination of file states and model answer
GenInit ==
  /\ EngInit
  /\ FnIdle
  /\ genIn \in GenInputs
  /\ genOut = Returned(GeneratedFailure(<<>>))
  /\ genDone = FALSE
  /\ ChartIdle
  /\ NlIdle
  /\ ReqIdle
  /\ AuxIdle

ApplyGenerate ==
  /\ ~ genDone
  /\ genOut' = generate_sql(genIn.rules, genIn.context, genIn.model)
  /\ genDone' = TRUE
  /\ UNCHANGED <<engVars, dbUp, callVars, submitted, lastOp, fnVars, genIn,
                 chartVars, nlVars, req, auxVars>>

GenNext == ApplyGenerate

SpecGenerate == GenInit /\ [][GenNext]_vars

\* determine_chart_type applied to one question, one result and one answer
\* of the model
ChartInit ==
  /\ EngInit
  /\ FnIdle
  /\ GenIdle
  /\ chartIn \in ChartInputs
  /\ chartOut = ChartOutcome(PyNone, FALSE)
  /\ chartDone = FALSE
  /\ NlIdle
  /\ ReqIdle
  /\ AuxIdle

ApplyChart ==
  /\ ~ chartDone
  /\ chartOut' = determine_chart_type(chartIn.question,
                                      ChartData(chartIn.values, chartIn.rows),
                                      ChartColumns(chartIn.values),
                                      chartIn.answer)
  /\ chartDone' = TRUE
  /\ UNCHANGED <<engVars, dbUp, callVars, submitted, lastOp, fnVars, genVars,
                 chartIn, nlVars, req, auxVars>>

ChartNext == ApplyChart

SpecChart == ChartInit /\ [][ChartNext]_vars

\* generate_natural_language_response applied to one question, one
\* execution result, one chart configuration and one answer of the model
NlInit ==
  /\ EngInit
  /\ FnIdle
  /\ GenIdle
  /\ ChartIdle
  /\ nlIn \in NlInputs
  /\ nlOut = NlOutcome(NoText, FALSE)
  /\ nlDone = FALSE
  /\ ReqIdle
  /\ AuxIdle

ApplyNarrative ==
  /\ ~ nlDone
  /\ nlOut' = generate_natural_language_response(
                 nlIn.question, nlIn.result, nlIn.chart_config, nlIn.answer)
  /\ nlDone' = TRUE
  /\ UNCHANGED <<engVars, dbUp, callVars, submitted, lastOp, fnVars, genVars,
                 chartVars, nlIn, req, auxVars>>

NlNext == ApplyNarrative

SpecNarrative == NlInit /\ [][NlNext]_vars

\* ------------------------------------------------------------------------
\* The /generate-sql request of main.py, one step per blocking call
\* ------------------------------------------------------------------------
\* the handler runs on the event loop and never awaits: one request at a
\* time, its engine calls made as caller RequestThread
RequestThread == 1

ServiceQuestions == {<<"t","o","p">>, <<"S","h","o","w">>}

\* what the model may answer the synthesis prompt with
ServiceSqlAnswers ==
  { ModelRaises,
    ModelSays(FenceSql \o <<"\n">> \o SqlGood \o <<"\n">> \o Fence),
    ModelSays(SqlTwoStatements),
    ModelSays(SqlUnknownColumn),
    ModelSays(SqlDelete) }

\* a value that counts as true in  x and x.get('should_visualize')
Truthy == {"True", "'yes'"}

\* a request arrives
Receive(q) ==
  /\ req.stage = "idle"
  /\ Idle
  /\ req' = [NoRequest EXCEPT !.stage = "generate", !.question = q]
  /\ UNCHANGED <<engVars, dbUp, callVars, submitted, lastOp, fnVars,
                 genVars, chartVars, nlVars, auxVars>>

\* a failed model call is made a second time
ReqGenerate_retry ==
  /\ req.stage = "generate"
  /\ \E rules \in RulesFileStates, context \in ContextFileStates,
        answer \in ServiceSqlAnswers :
       \E g \in {generate_sql(rules, context, answer).ret} :
         \E calls \in {IF create_prompt(rules, context).raised
                       THEN <<>>
                       ELSE IF answer.raises
                       THEN <<"synthesis", "synthesis">>
                       ELSE <<"synthesis">>} :
           IF g.success
           THEN /\ req' = [req EXCEPT !.stage = "execute", !.sql = g.sql,
                                      !.calls = calls]
                /\ pc' = [pc EXCEPT ![RequestThread] = "ensure"]
                /\ sql' = [sql EXCEPT ![RequestThread] = g.sql]
                /\ UNCHANGED <<result, events, firstError>>
           ELSE /\ req' = [req EXCEPT !.stage = "responded",
                                      !.response = ErrorResponse(g.error),
                                      !.calls = calls]
                /\ UNCHANGED callVars
  /\ UNCHANGED <<engVars, dbUp, submitted, lastOp, fnVars,
                 genVars, chartVars, nlVars, auxVars>>

\* result = engine.generate_sql(request.query); on failure the response is
\* returned, otherwise engine.execute_query(result['sql']) is entered
ReqGenerate ==
  /\ req.stage = "generate"
  /\ \E rules \in RulesFileStates, context \in ContextFileStates,
        answer \in ServiceSqlAnswers :
       \E g \in {generate_sql(rules, context, answer).ret} :
         \E calls \in {IF create_prompt(rules, context).raised
                       THEN <<>> ELSE <<"synthesis">>} :
           IF g.success
           THEN /\ req' = [req EXCEPT !.stage = "execute", !.sql = g.sql,
                                      !.calls = calls]
                /\ pc' = [pc EXCEPT ![RequestThread] = "ensure"]
                /\ sql' = [sql EXCEPT ![RequestThread] = g.sql]
                /\ UNCHANGED <<result, events, firstError>>
           ELSE /\ req' = [req EXCEPT !.stage = "responded",
                                      !.response = ErrorResponse(g.error),
                                      !.calls = calls]
                /\ UNCHANGED callVars
  /\ UNCHANGED <<engVars, dbUp, submitted, lastOp, fnVars,
                 genVars, chartVars, nlVars, auxVars>>

\* execute_query has returned; chart_config = None, and
\* engine.determine_chart_type(...) when the result has success and rows
ReqChart ==
  /\ req.stage = "execute"
  /\ pc[RequestThread] = "done"
  /\ \E x \in {result[RequestThread]} :
       IF x.success /\ x.data # <<>>
       THEN \E answer \in ChartAnswers :
              \E out \in {determine_chart_type(req.question, x.data,
                                               x.columns, answer)} :
                req' = [req EXCEPT
                          !.stage = "narrate",
                          !.execution_result = x,
                          !.chart_config = out.ret,
                          !.calls = IF out.invoked
                                    THEN Append(@, "chart") ELSE @]
       ELSE req' = [req EXCEPT !.stage = "narrate",
                               !.execution_result = x]
  /\ pc' = [pc EXCEPT ![RequestThread] = "idle"]
  /\ sql' = [sql EXCEPT ![RequestThread] = <<>>]
  /\ result' = [result EXCEPT ![RequestThread] = NoResult]
  /\ events' = [events EXCEPT ![RequestThread] = <<>>]
  /\ firstError' = [firstError EXCEPT ![RequestThread] = ""]
  /\ UNCHANGED <<engVars, dbUp, submitted, lastOp, fnVars,
                 genVars, chartVars, nlVars, auxVars>>

\* natural_language = engine.generate_natural_language_response(...)
ReqNarrate ==
  /\ req.stage = "narrate"
  /\ \E answer \in NlAnswers :
       \E out \in {generate_natural_language_response(
                     req.question, req.execution_result, req.chart_config,
                     answer)} :
         req' = [req EXCEPT
                   !.stage = "respond",
                   !.natural_language = out.ret,
                   !.calls = IF out.invoked
                             THEN Append(@, "narrative") ELSE @]
  /\ UNCHANGED <<engVars, dbUp, callVars, submitted, lastOp, fnVars,
                 genVars, chartVars, nlVars, auxVars>>

\* return SQLResponse(success=execution_result['success'], ...,
\* chart_config=chart_config if chart_config and
\* chart_config.get('should_visualize') else None); an exception raised
\* while the arguments are evaluated is answered by the handler's except
\* Exception with SQLResponse(success=False, error=str(e))
ReqRespond ==
  /\ req.stage = "respond"
  /\ req' = [req EXCEPT
       !.stage = "responded",
       !.response =
         IF GetRaises(req.chart_config)
         THEN ErrorResponse(<<"'", req.chart_config.kind,
                              "' object has no attribute 'get'">>)
         ELSE [success |-> req.execution_result.success,
               data |-> req.execution_result.data,
               data_none |-> req.execution_result.data_none,
               columns |-> req.execution_result.columns,
               row_count |-> req.execution_result.row_count,
               error |-> req.execution_result.error,
               natural_language |-> req.natural_language,
               chart_config |->
                 IF /\ req.chart_config.truthy
                    /\ req.chart_config.should_visualize \in Truthy
                 THEN req.chart_config ELSE PyNone]]
  /\ UNCHANGED <<engVars, dbUp, callVars, submitted, lastOp, fnVars,
                 genVars, chartVars, nlVars, auxVars>>

\* the response has been sent; the locals of the handler are gone
ReqDone ==
  /\ req.stage = "responded"
  /\ req' = NoRequest
  /\ UNCHANGED <<engVars, dbUp, callVars, submitted, lastOp, fnVars,
                 genVars, chartVars, nlVars, auxVars>>

ServiceNext ==
  \/ \E q \in ServiceQuestions : Receive(q)
  \/ ReqGenerate
  \/ Ensure(RequestThread)
  \/ Validate(RequestThread)
  \/ Execute(RequestThread)
  \/ Reconnect(RequestThread)
  \/ Retry(RequestThread)
  \/ Fetch(RequestThread)
  \/ ReqChart
  \/ ReqNarrate
  \/ ReqRespond
  \/ ReqDone
  \/ Drop
  \/ DbDown
  \/ DbUp

SpecService == Init /\ [][ServiceNext]_vars

\* ------------------------------------------------------------------------
\* The service from its start: startup_event and the two POST endpoints
\* ------------------------------------------------------------------------
\* the module has been imported: engine = None, startup_event has not run
NotStarted == [started |-> FALSE, engine |-> FALSE, failed |-> FALSE]

\* raise HTTPException(status_code=503, detail="Engine not initialized")
EngineNotInitialized ==
  [status |-> "503", detail |-> <<"Engine not initialized">>]

\* SQLResponse made from the result of execute_query by /execute-sql
DirectResponse(x) ==
  [success |-> x.success, data |-> x.data, data_none |-> x.data_none,
   columns |-> x.columns, row_count |-> x.row_count, error |-> x.error,
   natural_language |-> NoText, chart_config |-> PyNone]

\* a mutant of Startup: the engine whose connect_db failed is kept
Startup_keepsEngine ==
  /\ ~ svc.started
  /\ \E raises \in BOOLEAN :
       IF raises
       THEN /\ svc' = [started |-> TRUE, engine |-> FALSE, failed |-> TRUE]
            /\ UNCHANGED <<engVars, lastOp>>
       ELSE \E r \in {connect_db(Eng, dbUp)} :
              /\ SetEng(r.E)
              /\ lastOp' = Op("connect_db", r, Eng)
              /\ svc' = [started |-> TRUE, engine |-> TRUE,
                         failed |-> ~ r.ret]
  /\ UNCHANGED <<dbUp, callVars, submitted, fnVars, genVars, chartVars,
                 nlVars, req, tabVars, racing, ui, recVars, prev>>

\* startup_event: the engine is constructed and connect_db() is called; when
\* the constructor raises or connect_db() returns False, engine = None
Startup ==
  /\ ~ svc.started
  /\ \E raises \in BOOLEAN :
       IF raises
       THEN /\ svc' = [started |-> TRUE, engine |-> FALSE, failed |-> TRUE]
            /\ UNCHANGED <<engVars, lastOp>>
       ELSE \E r \in {connect_db(Eng, dbUp)} :
              /\ SetEng(r.E)
              /\ lastOp' = Op("connect_db", r, Eng)
              /\ svc' = [started |-> TRUE, engine |-> r.ret,
                         failed |-> ~ r.ret]
  /\ UNCHANGED <<dbUp, callVars, submitted, fnVars, genVars, chartVars,
                 nlVars, req, tabVars, racing, ui, recVars, prev>>

\* POST /generate-sql: if not engine: raise HTTPException(503); otherwise
\* the handler goes on to engine.generate_sql
PostGenerateSql(q) ==
  /\ svc.started
  /\ req.stage = "idle"
  /\ Idle
  /\ req' = IF ~ svc.engine
            THEN [NoRequest EXCEPT !.stage = "responded", !.question = q,
                                   !.response = EngineNotInitialized]
            ELSE [NoRequest EXCEPT !.stage = "generate", !.question = q]
  /\ UNCHANGED <<engVars, dbUp, callVars, submitted, lastOp, fnVars,
                 genVars, chartVars, nlVars, auxVars>>

\* POST /execute-sql: if not engine: raise HTTPException(503); a text that
\* does not begin with SELECT is refused; engine._ensure_connection() is
\* called; then engine.execute_query(request.query) is entered
PostExecuteSql(s) ==
  /\ svc.started
  /\ req.stage = "idle"
  /\ Idle
  /\ IF ~ svc.engine
     THEN /\ req' = [NoRequest EXCEPT !.stage = "responded", !.sql = s,
                                      !.response = EngineNotInitialized]
          /\ UNCHANGED <<engVars, lastOp, callVars>>
     ELSE IF ~ startswith(upper(strip(s)), SELECT)
     THEN /\ req' = [NoRequest EXCEPT
                       !.stage = "responded", !.sql = s,
                       !.response =
                         ErrorResponse(<<"Only SELECT queries are allowed">>)]
          /\ UNCHANGED <<engVars, lastOp, callVars>>
     ELSE \E r \in {_ensure_connection(Eng, dbUp)} :
            /\ SetEng(r.E)
            /\ lastOp' = Op("ensure", r, Eng)
            /\ IF r.ret
               THEN /\ req' = [NoRequest EXCEPT !.stage = "direct",
                                                !.sql = s]
                    /\ pc' = [pc EXCEPT ![RequestThread] = "ensure"]
                    /\ sql' = [sql EXCEPT ![RequestThread] = s]
                    /\ UNCHANGED <<result, events, firstError>>
               ELSE /\ req' = [NoRequest EXCEPT
                                 !.stage = "responded", !.sql = s,
                                 !.response = ErrorResponse(
                                   <<"Database connection failed. Please check your database credentials.">>)]
                    /\ UNCHANGED callVars
  /\ UNCHANGED <<dbUp, submitted, fnVars, genVars, chartVars, nlVars,
                 auxVars>>

\* execute_query has returned to /execute-sql, which answers with its result
DirectRespond ==
  /\ req.stage = "direct"
  /\ pc[RequestThread] = "done"
  /\ req' = [req EXCEPT !.stage = "responded",
                        !.execution_result = result[RequestThread],
                        !.response = DirectResponse(result[RequestThread])]
  /\ pc' = [pc EXCEPT ![RequestThread] = "idle"]
  /\ sql' = [sql EXCEPT ![RequestThread] = <<>>]
  /\ result' = [result EXCEPT ![RequestThread] = NoResult]
  /\ events' = [events EXCEPT ![RequestThread] = <<>>]
  /\ firstError' = [firstError EXCEPT ![RequestThread] = ""]
  /\ UNCHANGED <<engVars, dbUp, submitted, lastOp, fnVars,
                 genVars, chartVars, nlVars, auxVars>>

StartInit ==
  /\ EngInit
  /\ FnIdle
  /\ GenIdle
  /\ ChartIdle
  /\ NlIdle
  /\ ReqIdle
  /\ TabIdle
  /\ RecIdle
  /\ racing = [t \in Threads |-> FALSE]
  /\ ui = NoSession
  /\ prev = NoCall
  /\ svc = NotStarted

StartNext ==
  \/ Startup
  \/ \E q \in ServiceQuestions : PostGenerateSql(q)
  \/ \E s \in SqlTexts : PostExecuteSql(s)
  \/ ReqGenerate
  \/ Ensure(RequestThread)
  \/ Validate(RequestThread)
  \/ Execute(RequestThread)
  \/ Reconnect(RequestThread)
  \/ Retry(RequestThread)
  \/ Fetch(RequestThread)
  \/ ReqChart
  \/ ReqNarrate
  \/ ReqRespond
  \/ DirectRespond
  \/ ReqDone
  \/ Drop
  \/ DbDown
  \/ DbUp

SpecStartup == StartInit /\ [][StartNext]_vars

\* ------------------------------------------------------------------------
\* The chat page (app.py) in front of the service
\* ------------------------------------------------------------------------
\* a Python value that is true in a condition: not None, not ''
IsTruthy(text) == text # NoText /\ text # <<>>

\* the widget events a user can send to the page as it was last rendered:
\* the toggle and the chat input always, the two buttons of the execution
\* prompt only when waiting_for_response and current_sql are both true
Widgets(u) ==
  {[kind |-> "toggle", q |-> <<>>]}
  \cup {[kind |-> "input", q |-> q] : q \in ServiceQuestions}
  \cup (IF u.waiting_for_response /\ IsTruthy(u.current_sql)
        THEN {[kind |-> "yes", q |-> <<>>], [kind |-> "no", q |-> <<>>]}
        ELSE {})

\* one run of the script for one widget event. The toggle stores its value;
\* 'Yes, Execute' posts current_sql to /execute-sql; 'No, Skip' clears the
\* prompt; a question is posted to /generate-sql by generate_sql(user_input)
UiRun ==
  /\ ui.phase = "ready"
  /\ req.stage = "idle"
  /\ Idle
  /\ \E e \in Widgets(ui) :
       /\ ui' =
            IF e.kind = "toggle"
            THEN [ui EXCEPT !.auto_execute = ~ @]
            ELSE IF e.kind = "yes"
            THEN [ui EXCEPT !.choice = "yes", !.phase = "executing"]
            ELSE IF e.kind = "no"
            THEN [ui EXCEPT !.choice = "no",
                            !.waiting_for_response = FALSE,
                            !.current_sql = NoText]
            ELSE [ui EXCEPT !.question = e.q, !.choice = "none",
                            !.phase = "generating"]
       /\ req' = IF e.kind = "input"
                 THEN [NoRequest EXCEPT !.stage = "generate",
                                        !.question = e.q]
                 ELSE req
  /\ UNCHANGED <<engVars, dbUp, callVars, submitted, lastOp, fnVars,
                 genVars, chartVars, nlVars, tabVars, racing, svc, recVars, prev>>

\* result = generate_sql(user_input) has the response of /generate-sql, whose
\* sql field is None. On success current_sql = result.get('sql'); with the
\* toggle on, execute_sql(sql_query) posts {"query": null}, which the service
\* refuses before its handler runs, and the prompt is cleared; with the
\* toggle off the question 'Would you like me to execute it?' is appended
\* and waiting_for_response is set
UiGenerated ==
  /\ ui.phase = "generating"
  /\ req.stage = "responded"
  /\ req' = NoRequest
  /\ ui' =
       IF ~ req.response.success
       THEN [ui EXCEPT !.phase = "ready"]
       ELSE IF ui.auto_execute
       THEN [ui EXCEPT !.phase = "ready", !.waiting_for_response = FALSE,
                       !.current_sql = NoText]
       ELSE [ui EXCEPT !.phase = "ready", !.waiting_for_response = TRUE,
                       !.current_sql = NoText, !.choice = "asked"]
  /\ UNCHANGED <<engVars, dbUp, callVars, submitted, lastOp, fnVars,
                 genVars, chartVars, nlVars, tabVars, racing, svc, recVars, prev>>

ChatNext ==
  \/ UiRun
  \/ ReqGenerate
  \/ Ensure(RequestThread)
  \/ Validate(RequestThread)
  \/ Execute(RequestThread)
  \/ Reconnect(RequestThread)
  \/ Retry(RequestThread)
  \/ Fetch(RequestThread)
  \/ ReqChart
  \/ ReqNarrate
  \/ ReqRespond
  \/ UiGenerated
  \/ Drop
  \/ DbDown
  \/ DbUp

SpecChat == Init /\ [][ChatNext]_vars

\* ------------------------------------------------------------------------
\* Properties of validate_sql
\* ------------------------------------------------------------------------
\* a and b are the same character up to letter case
SameLetter(a, b) ==
  \/ a = b
  \/ \E n \in 1..26 : {a, b} = {LowerLetters[n], UpperLetters[n]}

\* the word w occurs in the text s, whatever the case of its letters
OccursIgnoringCase(s, w) ==
  \E i \in 0..(Len(s) - Len(w)) :
    \A j \in 1..Len(w) : SameLetter(s[i + j], w[j])

\* the positions in dangerous_keywords of the keywords that occur in s
ForbiddenIn(s) ==
  { k \in 1..Len(dangerous_keywords) :
      OccursIgnoringCase(s, dangerous_keywords[k]) }

\* the text without its leading whitespace begins with SELECT in any case
BeginsWithSelect(s) ==
  \E i \in 0..Len(s) :
    /\ \A j \in 1..i : s[j] \in Whitespace
    /\ Len(s) >= i + Len(SELECT)
    /\ \A j \in 1..Len(SELECT) : SameLetter(s[i + j], SELECT[j])

\* C8: a text that contains a forbidden keyword, in any letter case and
\* anywhere, is rejected with 'Query contains forbidden operation: K', where
\* K is the first keyword of the fixed list that occurs in the text.
C8_ForbiddenKeywordRejected ==
  (valDone /\ ForbiddenIn(valIn) # {}) =>
     LET k == CHOOSE m \in ForbiddenIn(valIn) :
                \A n \in ForbiddenIn(valIn) : m <= n
     IN  /\ valOut.valid = FALSE
         /\ valOut.error = <<"Query contains forbidden operation: ">>
                             \o dangerous_keywords[k]

\* "DeLeTedrop" holds DELETE before DROP; the answer names DROP, which
\* comes first in the list
C8_Witness ==
  /\ valDone
  /\ valIn = Join(ValFrags, <<4, 5>>)
  /\ valOut = [valid |-> FALSE,
               error |-> <<"Query contains forbidden operation: ",
                           "D", "R", "O", "P">>]

\* C9: a text whose trimmed, upper-cased form does not begin with SELECT is
\* rejected, whether or not it also contains a forbidden keyword.
C9_NonSelectRejected ==
  (valDone /\ ~ BeginsWithSelect(valIn)) => valOut.valid = FALSE

\* "WITHx" holds no forbidden keyword and is rejected for not being a SELECT
C9_Witness ==
  /\ valDone
  /\ valIn = Join(ValFrags, <<7, 8>>)
  /\ ForbiddenIn(valIn) = {}
  /\ valOut = [valid |-> FALSE, error |-> <<"Only SELECT queries are allowed">>]

\* C28: validate_sql answers valid=true exactly when the text holds none of
\* the nine forbidden keywords as a substring, in any letter case, and its
\* trimmed form begins with SELECT in any letter case; so a SELECT whose
\* only forbidden word is inside an identifier such as created_at is
\* rejected, and so is a statement that begins with WITH.
C28_ValidExactly ==
  valDone =>
    /\ valOut.valid <=>
         (ForbiddenIn(valIn) = {} /\ BeginsWithSelect(valIn))
    /\ OccursIgnoringCase(valIn, ValFrags[6]) => ~ valOut.valid
    /\ startswith(valIn, ValFrags[7]) => ~ valOut.valid

\* "SELECT created_at" is refused for the CREATE inside the column name
C28_Witness ==
  /\ valDone
  /\ valIn = Join(ValFrags, <<1, 3, 6>>)
  /\ valOut = [valid |-> FALSE,
               error |-> <<"Query contains forbidden operation: ",
                           "C", "R", "E", "A", "T", "E">>]

\* ------------------------------------------------------------------------
\* Properties of clean_sql_query
\* ------------------------------------------------------------------------
\* C10: clean_sql_query is idempotent: cleaning the output of a cleaning
\* gives that output again.
C10_CleanIdempotent ==
  cleanPc = 2 => cleanTwice = cleanOnce

\* a text that ends with a fence marker, before its terminating ";" if any
TrailingFence(s) == endswith(s, Fence) \/ endswith(s, Fence \o <<";">>)

\* C13: for every raw text the output of clean_sql_query ends with ";", has
\* no leading or trailing whitespace, does not begin with a code-fence
\* marker and carries no trailing fence marker.
C13_CleanOutputShape ==
  cleanPc >= 1 =>
    /\ endswith(cleanOnce, <<";">>)
    /\ strip(cleanOnce) = cleanOnce
    /\ ~ startswith(cleanOnce, Fence)
    /\ ~ TrailingFence(cleanOnce)

\* ------------------------------------------------------------------------
\* Properties of generate_sql
\* ------------------------------------------------------------------------
\* the message of the first exception the inputs of generate_sql lead to
GenFailureOf(in) ==
  IF in.rules # "ok" THEN FileErrorMessage("rules.json", in.rules)
  ELSE IF in.context # "ok"
  THEN FileErrorMessage("business_context.json", in.context)
  ELSE IF in.model.raises THEN ModelErrorMessage
  ELSE NoText

\* C12: generate_sql never raises and returns one of two shapes: success
\* with a trimmed text ending in ";" and no error, or failure with no sql
\* and the exception's message; an exception while building the prompt
\* (missing or malformed rules.json or business_context.json), calling the
\* model or normalising gives the failure shape.
C12_GenerateSqlShapes ==
  genDone =>
    /\ ~ genOut.raised
    /\ genOut.ret.success = (GenFailureOf(genIn) = NoText)
    /\ genOut.ret.success =>
         /\ genOut.ret.sql # NoText
         /\ strip(genOut.ret.sql) = genOut.ret.sql
         /\ endswith(genOut.ret.sql, <<";">>)
         /\ genOut.ret.error = NoText
    /\ ~ genOut.ret.success =>
         /\ genOut.ret.sql = NoText
         /\ genOut.ret.error = GenFailureOf(genIn)

\* rules.json did not parse while the model would have answered with a text
C12_Witness ==
  /\ genDone
  /\ genIn.rules = "malformed"
  /\ ~ genIn.model.raises
  /\ genIn.model.text # <<>>
  /\ genOut = Returned(GeneratedFailure(
                 <<"Expecting value: line 1 column 1 (char 0)">>))

\* ------------------------------------------------------------------------
\* Properties of determine_chart_type
\* ------------------------------------------------------------------------
\* the drawn questions that hold no visualization keyword, and the drawn
\* values by the kind of column they make
PlainQuestions == { <<"t","o","p">>, <<"s","u","m">> }
NumericValues == { <<"7">>, <<"-","1",".","5">> }
DateLikeValues == { <<"1","/","2">>, <<"j","a","n">> }
CategoricalValues == { <<"J","a","n">>, <<"n","o">> }

HasColumnOf(kind) ==
  \E j \in 1..Len(chartIn.values) : chartIn.values[j] \in kind

\* C17: for a question with no visualization keyword and a result whose
\* columns are all numeric, determine_chart_type calls the model exactly
\* when the result has at least 5 rows; with fewer rows it returns
\* should_visualize=false without calling the model.
C17_NumericThreshold ==
  ( /\ chartDone
    /\ chartIn.question \in PlainQuestions
    /\ \A j \in 1..Len(chartIn.values) : chartIn.values[j] \in NumericValues )
  => /\ chartOut.invoked = (chartIn.rows >= 5)
     /\ chartIn.rows < 5 =>
          /\ ~ chartOut.invoked
          /\ chartOut.ret.kind = "dict"
          /\ chartOut.ret.should_visualize = "False"

\* five rows of one numeric column: the model was asked and answered
C17_Witness ==
  /\ chartDone
  /\ chartIn.question = <<"t","o","p">>
  /\ chartIn.values = << <<"-","1",".","5">> >>
  /\ chartIn.rows = 5
  /\ chartOut.invoked
  /\ chartOut.ret = PyDict("True", "bar")

C19_ReturnsChartConfig ==
  chartDone =>
    /\ chartOut.ret.kind = "dict"
    /\ chartOut.ret.should_visualize \in {"True", "False"}
    /\ chartOut.ret.should_visualize = "True" =>
         chartOut.ret.chart_type \in ChartTypes

\* ------------------------------------------------------------------------
\* Properties of generate_natural_language_response
\* ------------------------------------------------------------------------
\* building the prompt or calling the model fails for the drawn inputs
NarrativeFails ==
  /\ nlIn.result.success
  /\ nlIn.result.row_count > 0
  /\ \/ nlIn.answer.raises
     \/ nlIn.chart_config.kind \in {"list", "str"}

C16_ResponseCarriesResult ==
  (req.stage = "responded" /\ req.execution_result.success) =>
    /\ req.response.success
    /\ ~ req.response.data_none
    /\ req.response.data = req.execution_result.data
    /\ req.response.columns = req.execution_result.columns
    /\ req.response.row_count = req.execution_result.row_count

\* ------------------------------------------------------------------------
\* Properties of execute_query and of the connection manager
\* ------------------------------------------------------------------------
\* d is a dict built from the row: its keys are the column names and each
\* value is the row's value under a column of that name
RecordOfRow(d, columns, row) ==
  /\ {d[k][1] : k \in 1..Len(d)} = {columns[j] : j \in 1..Len(columns)}
  /\ \A k \in 1..Len(d) :
       \E j \in 1..Len(columns) : columns[j] = d[k][1] /\ row[j] = d[k][2]

\* C14: every success result of execute_query has row_count = len(data),
\* columns equal to the statement's projected column names in query order,
\* and data listing the rows in the database's order, record i built from
\* row i.
C14_SuccessResultShape ==
  \A t \in Threads :
    (pc[t] = "done" /\ result[t].success) =>
      LET r == result[t]
          rs == ResultSet(sql[t])
      IN  /\ r.row_count = Len(r.data)
          /\ r.columns = rs.columns
          /\ Len(r.data) = Len(rs.rows)
          /\ \A i \in 1..Len(r.data) :
               RecordOfRow(r.data[i], rs.columns, rs.rows[i])

\* a text that projects two columns and yields three rows returned its result
C14_Witness ==
  \E t \in Threads :
    /\ pc[t] = "done"
    /\ result[t].success
    /\ sql[t] = SqlTwoStatements
    /\ result[t].row_count = 3
    /\ result[t].data[1] = << <<"b", <<"y">>>>, <<"a", <<"2">>>> >>
    /\ result[t].data[3] = << <<"b", <<"y">>>>, <<"a", <<"1">>>> >>

\* a text with no statement separator other than a terminating one
SingleStatement(s) ==
  \A i \in 1..Len(s) : s[i] = ";" => i = Len(rstrip(s))

\* C11: every text that passed validate_sql and was handed to the database
\* is a single statement: it holds no ";" other than the terminating one.
C11_SubmittedIsSingleStatement ==
  \A s \in submitted \ {Probe} : SingleStatement(s)

\* the first submission of a call's log ("" when nothing was submitted) and
\* what the call did after it
RECURSIVE FirstSubmitAt(_, _)
FirstSubmitAt(log, i) ==
  IF i > Len(log) THEN 0
  ELSE IF log[i] \in SubmitEvents THEN i
  ELSE FirstSubmitAt(log, i + 1)

FirstSubmit(log) ==
  IF FirstSubmitAt(log, 1) = 0 THEN "" ELSE log[FirstSubmitAt(log, 1)]

AfterFirstSubmit(log) == SubSeq(log, FirstSubmitAt(log, 1) + 1, Len(log))

\* the category of a failed call, read from what the call did at the driver:
\* it could not connect at its start, its only submission failed, its first
\* submission met a connection-class error, or it submitted nothing
FailureCategory(log) ==
  IF FirstSubmit(log) = "submit:connection" THEN "retry-exhausted"
  ELSE IF FirstSubmit(log) # "" THEN "query-execution"
  ELSE IF log # <<>> /\ log[Len(log)] = "connect:failed"
  THEN "connection-establishment"
  ELSE "refused"

\* the category a failure message announces
MessageForm(error) ==
  IF error = <<"Failed to establish database connection">>
  THEN "connection-establishment"
  ELSE IF error # <<>> /\ error[1] = "Database error: "
  THEN "query-execution"
  ELSE IF error # <<>> /\
          error[1] \in {"Failed to reconnect to database: ",
                        "Query execution failed after reconnect: "}
  THEN "retry-exhausted"
  ELSE "refused"

\* C15: execute_query never raises, and each failure result has
\* success=false, data=None, row_count=0 and a message whose form tells its
\* category: connection-establishment, query-execution or retry-exhausted;
\* no two categories produce the same message form.
C15_FailureShapeAndCategory ==
  \A t \in Threads :
    pc[t] = "done" =>
      /\ result[t] # NoResult
      /\ ~ result[t].success =>
           /\ result[t].data_none
           /\ result[t].data = <<>>
           /\ result[t].row_count = 0
           /\ result[t].error # <<>>
           /\ MessageForm(result[t].error) = FailureCategory(events[t])

\* the reconnect after a connection-class error failed
C15_Witness ==
  \E t \in Threads :
    /\ pc[t] = "done"
    /\ FirstSubmit(events[t]) = "submit:connection"
    /\ events[t][Len(events[t])] = "connect:failed"
    /\ result[t] =
         Failure(<<"Failed to reconnect to database: ", firstError[t]>>)

\* the validator has to refuse the text
MustBeRefused(s) == ForbiddenIn(s) # {} \/ ~ BeginsWithSelect(s)

\* C1: a text that contains a forbidden keyword or does not start with
\* SELECT is never handed to cursor.execute, neither at the first attempt
\* nor at the retry, and the call that carries it returns success=false.
C1_OnlyValidatedTextSubmitted ==
  /\ \A s \in submitted : ~ MustBeRefused(s)
  /\ \A t \in Threads :
       (pc[t] = "done" /\ MustBeRefused(sql[t])) =>
          /\ result[t].success = FALSE
          /\ Count(events[t], SubmitEvents) = 0

\* 'SELECT Drop' went through a call that found a live connection, and
\* came back refused
C1_Witness ==
  \E t \in Threads :
    /\ pc[t] = "done"
    /\ sql[t] = SqlSelectDrop
    /\ events[t] = <<"connect:ok">>
    /\ result[t] = Failure(<<"Query contains forbidden operation: ",
                             "D", "R", "O", "P">>)

\* C2: after a connection-class error of the first submission the call
\* makes exactly one connection attempt and at most one more submission
\* (one when the reconnect succeeded); a second submission that succeeds
\* gives success=true, one that fails gives success=false with the message
\* 'Query execution failed after reconnect: ...'.
C2_OneReconnectAndRetry ==
  \A t \in Threads :
    (pc[t] = "done" /\ FirstSubmit(events[t]) = "submit:connection") =>
       LET after == AfterFirstSubmit(events[t])
       IN  /\ Count(after, ConnectEvents) = 1
           /\ Count(after, SubmitEvents) =
                (IF Count(after, {"connect:ok"}) = 1 THEN 1 ELSE 0)
           /\ Count(after, {"submit:ok"}) = 1 => result[t].success = TRUE
           /\ Count(after, SubmitEvents \ {"submit:ok"}) = 1 =>
                /\ result[t].success = FALSE
                /\ Len(result[t].error) = 2
                /\ result[t].error[1] =
                     "Query execution failed after reconnect: "

\* the session dropped under the first submission, the reconnect worked and
\* the second submission was rejected by the database
C2_Witness ==
  \E t \in Threads :
    /\ pc[t] = "done"
    /\ FirstSubmit(events[t]) = "submit:connection"
    /\ AfterFirstSubmit(events[t]) =
         <<"teardown", "connect:ok", "submit:statement">>
    /\ result[t] = Failure(<<"Query execution failed after reconnect: ",
                             StatementMessage>>)

\* C3: one call submits its statement at most twice and attempts at most
\* two connections, and every call that has started ends with a result.
C3_BoundedAndTerminating ==
  /\ [](\A t \in Threads :
          /\ Count(events[t], SubmitEvents) <= 2
          /\ Count(events[t], ConnectEvents) <= 2)
  /\ \A t \in Threads : (pc[t] # "idle") ~> (pc[t] = "done")

\* a call that used both connection attempts and both submissions
C3_Witness ==
  \E t \in Threads :
    /\ pc[t] = "done"
    /\ Count(events[t], SubmitEvents) = 2
    /\ Count(events[t], ConnectEvents) = 2

\* C4 as stated: after a statement-level error of the first submission
\* there is no teardown, no reconnect and no second submission, and the
\* error of the result is the message of the database, verbatim.
C4_StatementErrorVerbatim ==
  \A t \in Threads :
    (pc[t] = "done" /\ FirstSubmit(events[t]) = "submit:statement") =>
       /\ AfterFirstSubmit(events[t]) = <<>>
       /\ conn # None
       /\ ~ connClosed[conn]
       /\ result[t] = Failure(<<StatementMessage>>)

\* C4 as amended: the error of the result is 'Database error: ' followed by
\* the message of the database.
C4_StatementErrorPrefixed ==
  \A t \in Threads :
    (pc[t] = "done" /\ FirstSubmit(events[t]) = "submit:statement") =>
       /\ AfterFirstSubmit(events[t]) = <<>>
       /\ conn # None
       /\ ~ connClosed[conn]
       /\ result[t] = Failure(<<"Database error: ", StatementMessage>>)

\* a call whose only submission was rejected by the database
C4_Witness ==
  \E t \in Threads :
    /\ pc[t] = "done"
    /\ sql[t] = SqlUnknownColumn
    /\ FirstSubmit(events[t]) = "submit:statement"
    /\ txnAborted[conn]
    /\ result[t].error = <<"Database error: ", StatementMessage>>

\* C5: one _ensure_connection makes at most one connection attempt; when it
\* returns True a connection and a cursor are held, and when it returns
\* False both handles are None.
C5_EnsureConnectionOutcome ==
  lastOp.op = "ensure" =>
     /\ Count(lastOp.log, ConnectEvents) <= 1
     /\ lastOp.ret => (conn # None /\ cursor # NoCursor)
     /\ ~ lastOp.ret => (conn = None /\ cursor = NoCursor)

\* the probe failed on a broken session and the reconnect failed as well
C5_Witness ==
  /\ lastOp.op = "ensure"
  /\ lastOp.from = "broken"
  /\ lastOp.log = <<"probe:failed", "teardown", "connect:failed">>
  /\ ~ lastOp.ret
  /\ conn = None
  /\ cursor = NoCursor

\* C6: whenever execute_query is about to submit the statement, the engine
\* holds a cursor that was created from the connection it holds, and that
\* connection is not marked closed.
C6_CursorOfOpenConnection ==
  \A t \in Threads :
    pc[t] \in {"execute", "retry"} =>
       /\ cursor # NoCursor
       /\ conn # None
       /\ cursor.parent = conn
       /\ ~ connClosed[conn]

\* a call that came after close() is about to submit
C6_Witness ==
  \E t \in Threads :
    /\ pc[t] = "execute"
    /\ lastOp.op = "ensure"
    /\ lastOp.from = "closed"

\* C7: after close() the connection and the cursor, when held, are closed; a
\* second close() changes nothing; an _ensure_connection that finds the
\* closed connection connects anew and, when it returns True, leaves an open
\* connection with an open cursor.
C7_CloseIdempotent ==
  /\ lastOp.op = "close" =>
       /\ conn = None \/ connClosed[conn]
       /\ cursor = NoCursor \/ CursorIsClosed(Eng)
       /\ close(Eng) = Eng
  /\ (lastOp.op = "ensure" /\ lastOp.from = "closed") =>
       /\ Count(lastOp.log, ConnectEvents) = 1
       /\ lastOp.ret =>
            (conn # None /\ ~ connClosed[conn] /\ ~ CursorIsClosed(Eng))

\* close() was called on an engine that was closed already
C7_Witness ==
  /\ lastOp.op = "close"
  /\ lastOp.from = "closed"
  /\ conn # None
  /\ connClosed[conn]

\* ------------------------------------------------------------------------
\* identify_relevant_tables applied to one question of TabInputs
\* ------------------------------------------------------------------------
TabInit ==
  /\ EngInit
  /\ FnIdle
  /\ GenIdle
  /\ ChartIdle
  /\ NlIdle
  /\ ReqIdle
  /\ tabIn \in TabInputs
  /\ tabOut = <<>>
  /\ tabDone = FALSE
  /\ racing = [t \in Threads |-> FALSE]
  /\ ui = NoSession
  /\ svc = Started
  /\ prev = NoCall
  /\ RecIdle

ApplyTables ==
  /\ ~ tabDone
  /\ tabOut' = identify_relevant_tables(tabIn)
  /\ tabDone' = TRUE
  /\ UNCHANGED <<engVars, dbUp, callVars, submitted, lastOp, fnVars,
                 genVars, chartVars, nlVars, req, tabIn, racing, ui, svc, recVars, prev>>

TabNext == ApplyTables

SpecTables == TabInit /\ [][TabNext]_vars

\* the positions in table_keywords of the tables of which some keyword
\* occurs in the question, whatever the case of the question's letters
MatchingTables(s) ==
  { i \in 1..Len(table_keywords) :
      \E k \in 1..Len(table_keywords[i].keywords) :
        OccursIgnoringCase(s, table_keywords[i].keywords[k]) }

\* the position of a table name in table_keywords
TablePosition(name) ==
  CHOOSE i \in 1..Len(table_keywords) : table_keywords[i].table = name

\* C23: when some table has a keyword that is a substring of the lower-cased
\* question, the result holds exactly those tables, each once, in the order
\* of the keyword map; when no table matches, the result is the default list
\* lead_master, ps_followup_master, qualified_leads, users; the result is
\* never empty.
C23_RelevantTablesExact ==
  tabDone =>
    /\ tabOut # <<>>
    /\ MatchingTables(tabIn) = {} =>
         tabOut = <<"lead_master", "ps_followup_master", "qualified_leads",
                    "users">>
    /\ MatchingTables(tabIn) # {} =>
         /\ {TablePosition(tabOut[j]) : j \in 1..Len(tabOut)}
              = MatchingTables(tabIn)
         /\ \A j \in 1..(Len(tabOut) - 1) :
              TablePosition(tabOut[j]) < TablePosition(tabOut[j + 1])

\* "Leadcre": lead selects lead_master, cre selects lead_master and users
C23_Witness ==
  /\ tabDone
  /\ tabIn = Join(TabFrags, <<1, 3>>)
  /\ tabOut = <<"lead_master", "users">>

\* C24 as stated: whatever the question, the result contains the four
\* default tables.
C24_AlwaysHoldsDefaults ==
  tabDone =>
    \A d \in 1..Len(main_tables) :
      \E j \in 1..Len(tabOut) : tabOut[j] = main_tables[d]

\* C24: the result is never empty; it contains the four default tables when
\* no table matches the question, and when some table matches it holds no
\* table other than the matching ones.
C24_DefaultsOnlyAsFallback ==
  tabDone =>
    /\ Len(tabOut) >= 1
    /\ MatchingTables(tabIn) = {} =>
         \A d \in 1..Len(main_tables) :
           \E j \in 1..Len(tabOut) : tabOut[j] = main_tables[d]
    /\ MatchingTables(tabIn) # {} =>
         \A j \in 1..Len(tabOut) :
           TablePosition(tabOut[j]) \in MatchingTables(tabIn)

\* "booking" matches one table, which is not a default table
C24_Witness ==
  /\ tabDone
  /\ tabIn = Join(TabFrags, <<2>>)
  /\ tabOut = <<"booking_and_retail_master">>

\* ------------------------------------------------------------------------
\* The fetch of execute_query applied to one result set
\* ------------------------------------------------------------------------
\* the names a statement may give its projected columns (two expressions
\* without alias are both named ?column?), and the values of a row
RecColumnNames == {"id", "name", "?column?"}
RecValues == {<<"1">>, <<"x">>}

RecInputs ==
  UNION { [columns : [1..m -> RecColumnNames],
           rows : {<<row>> : row \in [1..m -> RecValues]}] :
          m \in 1..MaxRecCols }

RecInit ==
  /\ EngInit
  /\ FnIdle
  /\ GenIdle
  /\ ChartIdle
  /\ NlIdle
  /\ ReqIdle
  /\ TabIdle
  /\ racing = [t \in Threads |-> FALSE]
  /\ ui = NoSession
  /\ svc = Started
  /\ prev = NoCall
  /\ recIn \in RecInputs
  /\ recOut = NoResult
  /\ recDone = FALSE

ApplyMaterialize ==
  /\ ~ recDone
  /\ recOut' = Materialize(recIn.columns, recIn.rows)
  /\ recDone' = TRUE
  /\ UNCHANGED <<engVars, dbUp, callVars, submitted, lastOp, fnVars,
                 genVars, chartVars, nlVars, req, tabVars, racing, ui, svc,
                 recIn, prev>>

RecNext == ApplyMaterialize

SpecRecords == RecInit /\ [][RecNext]_vars

\* C27: every record of a successful result has one field per projected
\* column, holding the row's value at that column's position: the record has
\* len(columns) fields and no value of the row is dropped, also when two
\* columns have the same name.
C27_OneFieldPerColumn ==
  recDone =>
    \A i \in 1..Len(recOut.data) :
      /\ Len(recOut.data[i]) = Len(recOut.columns)
      /\ \A j \in 1..Len(recOut.columns) :
           \E k \in 1..Len(recOut.data[i]) :
             recOut.data[i][k] = <<recOut.columns[j], recIn.rows[i][j]>>

\* ------------------------------------------------------------------------
\* Properties of one /generate-sql request
\* ------------------------------------------------------------------------
\* the model calls a request may have made, in the order of the handler
CallOrders ==
  { <<>>, <<"synthesis">>, <<"synthesis", "chart">>,
    <<"synthesis", "narrative">>, <<"synthesis", "chart", "narrative">> }

\* the request ended at generate_sql: execute_query was never entered
EndedAtSynthesis ==
  /\ req.stage = "responded"
  /\ req.execution_result = NoResult
  /\ req.sql = NoText

\* C21: within one request the model is called at most three times, in the
\* order synthesis, chart, narrative, each at most once; synthesis is not
\* called when create_prompt raised; the chart call is made only after an
\* execution that succeeded with at least one row; the narrative call is made
\* only after the execution; a failed synthesis is followed by no model call.
C21_ModelCallOrder ==
  /\ req.calls \in CallOrders
  /\ req.stage \in {"idle", "generate"} => req.calls = <<>>
  /\ req.stage = "execute" => req.calls = <<"synthesis">>
  /\ EndedAtSynthesis =>
       /\ req.calls \in {<<>>, <<"synthesis">>}
       /\ req.calls = <<>> <=> req.response.error # ModelErrorMessage
  /\ (\E i \in 1..Len(req.calls) : req.calls[i] = "chart") =>
       /\ req.stage \in {"narrate", "respond", "responded"}
       /\ req.execution_result.success
       /\ req.execution_result.row_count > 0
  /\ (\E i \in 1..Len(req.calls) : req.calls[i] = "narrative") =>
       /\ req.stage \in {"respond", "responded"}
       /\ req.execution_result # NoResult

\* a request that called the model three times
C21_Witness ==
  /\ req.stage = "responded"
  /\ req.calls = <<"synthesis", "chart", "narrative">>
  /\ req.execution_result.success

\* ------------------------------------------------------------------------
\* Order of the connection check and the validator in execute_query
\* ------------------------------------------------------------------------
\* C22: validation is decided before the connection manager or the database
\* is touched: a call whose statement the validator has to refuse ends with
\* no liveness probe, no teardown and no connection attempt in its log.
C22_RejectedTouchesNothing ==
  \A t \in Threads :
    (pc[t] = "done" /\ MustBeRefused(sql[t])) => events[t] = <<>>

\* ------------------------------------------------------------------------
\* Calls that are not serialized
\* ------------------------------------------------------------------------
\* C25: the engine has no mutual exclusion over its connection and cursor:
\* a call that returned success with anything other than the result set of
\* its own statement was interleaved with another call, and so was a call
\* that found the cursor gone, closed or without a result set when it came
\* to fetch; a call during which no other call was in progress returns only
\* the columns and rows of its own statement.
C25_OwnResultUnlessInterleaved ==
  \A t \in Threads :
    (pc[t] = "done" /\ ~ racing[t]) =>
       /\ result[t].success => result[t] = Success(sql[t])
       /\ result[t].error # <<"'NoneType' object is not iterable">>
       /\ result[t].error #
            <<"'NoneType' object has no attribute 'description'">>

\* one call returned the columns and rows of the other call's statement
C25_Witness ==
  \E t \in Threads : \E u \in Threads \ {t} :
    /\ pc[t] = "done"
    /\ InProgress(u)
    /\ racing[t]
    /\ sql[t] = SqlGood
    /\ sql[u] = SqlTwoStatements
    /\ result[t] = Success(sql[u])
    /\ result[t] # Success(sql[t])

\* ------------------------------------------------------------------------
\* Properties of the chat page
\* ------------------------------------------------------------------------
\* C26: with the Auto-Execute toggle off, the query generated for a question
\* is handed to the database only after the user was asked and has chosen
\* 'Yes, Execute'.
C26_ExecutedOnlyAfterYes ==
  (/\ ~ ui.auto_execute
   /\ \E i \in 1..Len(events[RequestThread]) :
        events[RequestThread][i] \in SubmitEvents)
  => ui.choice = "yes"

\* the execution prompt is never rendered: current_sql is never a true value
PromptNeverRendered ==
  /\ ~ IsTruthy(ui.current_sql)
  /\ ui.choice \in {"none", "asked"}

\* ------------------------------------------------------------------------
\* Recovery after a failed call
\* ------------------------------------------------------------------------
\* the statements the validator and the database accept
GoodTexts == {SqlGood, SqlTwoStatements}

\* C29: after a call that returned success=false, the next call with a
\* statement that is valid for the validator and the database returns
\* success=true, provided every connection attempt of the call succeeded and
\* the session was not lost twice while the call ran; the liveness probe
\* finds the session with the aborted transaction, so no statement is
\* submitted to it; the engine's only driver operations are connect, close,
\* cursor and execute, never commit or rollback.
C29_RecoversAfterFailure ==
  \A t \in Threads :
    /\ firstError[t] # "current transaction is aborted"
    /\ (/\ pc[t] = "done"
        /\ prev.failed
        /\ sql[t] \in GoodTexts
        /\ Count(events[t], {"connect:failed"}) = 0
        /\ Count(events[t], {"submit:connection"}) <= 1)
       => /\ result[t] = Success(sql[t])
          /\ \A i \in 1..Len(events[t]) :
               events[t][i] \in {"probe:ok", "probe:failed", "teardown",
                                 "connect:ok", "submit:ok",
                                 "submit:connection"}

\* the call before left the transaction aborted; this call's probe failed,
\* the session was replaced and the statement succeeded
C29_Witness ==
  \E t \in Threads :
    /\ pc[t] = "done"
    /\ prev = [failed |-> TRUE,
               error |-> <<"Database error: ", StatementMessage>>]
    /\ sql[t] = SqlGood
    /\ events[t] = <<"probe:failed", "teardown", "connect:ok", "submit:ok">>
    /\ result[t] = Success(SqlGood)

\* ------------------------------------------------------------------------
\* A failed startup
\* ------------------------------------------------------------------------
\* C30: when the constructor raised or connect_db() failed at startup, the
\* service holds no engine from then on, whatever the database does later:
\* every /generate-sql and /execute-sql request is answered with 503 'Engine
\* not initialized', no handler goes past that check, no execute_query call
\* is made and no connection is ever established.
C30_NoEngineAfterFailedStartup ==
  /\ [](svc.failed =>
          /\ ~ svc.engine
          /\ req.stage \in {"idle", "responded"}
          /\ req.stage = "responded" => req.response = EngineNotInitialized
          /\ \A t \in Threads : pc[t] = "idle"
          /\ conn = None
          /\ cursor = NoCursor
          /\ submitted = {}
          /\ lastOp.op \in {"init", "connect_db"})
  /\ [][svc.failed => svc' = svc]_vars

\* connect_db() failed at startup, the database is reachable again, and a
\* request has been answered with 503
C30_Witness ==
  /\ svc.failed
  /\ lastOp.op = "connect_db"
  /\ ~ lastOp.ret
  /\ dbUp
  /\ req.stage = "responded"
  /\ req.response = EngineNotInitialized

====
